---------------------------- MODULE Spec2Model ----------------------------
(***************************************************************************)
(* A model of the linux-drm crate: the atomic transaction builder          *)
(* (src/src/modeset/atomic.rs) and the two-call snapshot readers           *)
(* (src/src/lib.rs, src/src/modeset/props.rs).                             *)
(***************************************************************************)
EXTENDS Integers, Sequences, FiniteSets, TLC

(***************************************************************************)
(* Bounds of the model.                                                    *)
(***************************************************************************)

\* The largest value of the counter type of AtomicRequest::total_props and
\* of the wire format's count fields.  The program's type is u32; the model
\* keeps the modular arithmetic and scales the width down so that the
\* overflow case is reached.
U32_MAX == 3

\* The largest element count the collaborator reports for one array.
MaxCount == 1

U32_MODULUS == U32_MAX + 1

\* The most properties a request stores in the model: one more than the
\* counter can count, so that the call that overflows it happens.
MaxStored == U32_MAX + 1

(***************************************************************************)
(* Inputs.                                                                 *)
(***************************************************************************)

\* ObjectId values a caller passes: a kind and a raw id.  Two kinds share
\* raw id 1.
ObjectIds == {<<"Crtc", 1>>, <<"Plane", 1>>, <<"Connector", 2>>}

PropertyIds == {1, 2}

\* Property values a caller passes: a plain integer, or an owned BlobHandle.
PropertyValues == {[kind |-> "u64", v |-> 7], [kind |-> "BlobHandle", v |-> 9]}

\* How the build treats integer overflow of `total_props += 1`: with
\* overflow checks the addition panics, without them it wraps.
Builds == {"overflow_checks", "wrapping"}

VARIABLES
    build,          \* the build profile of the program, fixed at start
    req,            \* the AtomicRequest: [objs, total_props, drops]
    panicked,       \* a set_property call ended in a panic
    aborted,        \* a failed allocation aborted the process
    log,            \* ghost: the raw triples set since the last new/reset
    touched,        \* ghost: the raw object ids set since new()
    was_reset,      \* ghost: reset() has been called since new()
    rp_script,      \* replay scenario: the call sequence S
    rp_pc,          \* replay scenario: position
    rp_i,           \* replay scenario: index of the next call of S
    rp_req,         \* replay scenario: the AtomicRequest
    rp_before,      \* replay scenario: serialization taken before reset()
    rd_op,          \* reader: the operation running
    rd_pc,          \* reader: the exchange it is about to issue
    rd_count,       \* reader: the counts its buffers are sized for
    rd_ret,         \* reader: the arrays validated so far
    rd_i,           \* reader: index into the validated property list
    rd_result,      \* reader: what the operation returned
    rd_interrupted, \* reader: the pending exchange has been interrupted
    rd_answered,    \* ghost: the exchange answered last
    rd_iter,        \* ghost: the replies of the current loop iteration
    rd_script,      \* ghost: how far the replies follow N, M, N, N, ...
    rd_err,         \* ghost: the failure the operation met
    rd_flags,       \* reader: the flags of the ObjectPropMeta it is called on
    rd_name,        \* reader: the name of the ObjectPropMeta handed out last
    co_mode,        \* collaborator: how it answers ("any", "stable", "adverse")
    co_counts,      \* collaborator: the counts it reports once stable
    co_recorded,    \* ghost: whether rd_answered, rd_iter, rd_script are kept
    io_pc,          \* drm_ioctl: position
    io_req,         \* drm_ioctl: the request and argument it was called with
    io_issued,      \* ghost: the exchanges issued by the call, in order
    io_outcomes,    \* ghost: the outcomes of those exchanges, in order
    io_ret,         \* drm_ioctl: what it returned
    db_pc,          \* dumb buffer: position in create_dumb_buffer / drop
    db_live,        \* dumb buffer: the device handle is still open
    db_calls,       \* ghost: the exchanges and unmaps issued, in order
    db_life,        \* ghost: those issued since create_dumb_buffer began
    db_fail,        \* ghost: the step of create_dumb_buffer that failed
    db_result,      \* dumb buffer: what create_dumb_buffer returned
    db_pending,     \* dumb buffer: the Cleanup guards still to be dropped
    db_handle,      \* dumb buffer: the buffer handle CREATE_DUMB returned
    db_fb,          \* dumb buffer: the framebuffer id ADDFB returned
    px_in,          \* pixel_idx: the buffer geometry and the coordinates
    px_out,         \* pixel_idx: the value returned
    bl_handles,     \* blobs: state of each BlobHandle
    bl_kernel,      \* blobs: the blob ids that exist in the kernel
    bl_live,        \* blobs: the device handle is still open
    bl_req,         \* blobs: the AtomicRequest of the caller, or dropped
    bl_destroys,    \* ghost: DESTROYPROPBLOB exchanges issued per blob id
    bl_reported,    \* ghost: the errors destroy returned, with the device state
    bl_commits,     \* ghost: atomic_commit calls, each with the blobs missing
    fl_flags,       \* from_raw_flags: the flags passed
    fl_out,         \* from_raw_flags: the value returned
    ev_buf,         \* events: the bytes read from the device
    ev_remain,      \* events: DrmEventsFromBytes::remain
    ev_pc,          \* events: position of the iteration
    ev_yielded,     \* events: the raw events the iterator has yielded
    ev_decoded,     \* events: DrmEvent::from_raw of each event yielded
    er_in,          \* errors: the value converted
    er_out,         \* errors: the conversion and the conversion back
    mi_raw,         \* ModeInfo: the kernel mode record converted
    mi_info,        \* ModeInfo: the ModeInfo made from it
    mi_back,        \* ModeInfo: the kernel record made from that ModeInfo
    cf_pc,          \* from_file: position
    cf_ret,         \* from_file: what it returned
    cf_raw,         \* from_file: the InitError returned, converted with into()
    ac_pc,          \* atomic_commit: position
    ac_last,        \* ghost: the atomic_commit call made last
    ac_prev,        \* ghost: the request and arrays of the call before it
    il_s,           \* interleavings: the call sequence made on request A
    il_t,           \* interleavings: the call sequence made on request B
    il_a,           \* interleavings: request A
    il_b,           \* interleavings: request B
    il_i,           \* interleavings: the calls made so far, on A and then on B
    td_strong,      \* teardown: the strong count of the Arc of the device file
    td_file,        \* teardown: where the device file is ("arc", "caller", "closed")
    td_ret,         \* teardown: what Card::close or Card::take_file returned
    td_obj,         \* teardown: position of the teardown of each object
    td_calls,       \* ghost: the exchanges the teardowns issued, in order
    pm_ids,         \* each_object_property_meta: the validated prop_ids
    pm_values,      \* each_object_property_meta: the validated prop_values
    pm_i,           \* each_object_property_meta: index of the next property
    pm_pc,          \* each_object_property_meta: position
    pm_ret,         \* each_object_property_meta: what it returned
    pm_cb,          \* ghost: the arguments of the callback, call by call
    pm_ascii,       \* ghost: whether each name fetched was all ASCII
    dn_op,          \* driver name: the operation running
    dn_pc,          \* driver name: position
    dn_cap,         \* driver name: the capacity reserved, or the buffer length
    dn_asked,       \* driver name: the name_len passed to the content call
    dn_reply,       \* driver name: the name_len the content call reported
    dn_ret          \* driver name: what the operation returned

atomic_vars == <<build, req, panicked, aborted, log, touched, was_reset>>
replay_vars == <<rp_script, rp_pc, rp_i, rp_req, rp_before>>
props_vars == <<rd_flags, rd_name>>
reader_vars == <<rd_op, rd_pc, rd_count, rd_ret, rd_i, rd_result,
                 rd_interrupted, rd_answered, rd_iter, rd_script, rd_err,
                 props_vars>>
collab_vars == <<co_mode, co_counts, co_recorded>>
ioctl_vars == <<io_pc, io_req, io_issued, io_outcomes, io_ret>>
dumb_vars == <<db_pc, db_live, db_calls, db_fail, db_result, db_pending,
               db_handle, db_fb, db_life>>
pixel_vars == <<px_in, px_out>>
blob_vars == <<bl_handles, bl_kernel, bl_live, bl_req, bl_destroys,
               bl_reported, bl_commits>>
flags_vars == <<fl_flags, fl_out>>
event_vars == <<ev_buf, ev_remain, ev_pc, ev_yielded, ev_decoded>>
error_vars == <<er_in, er_out>>
mode_vars == <<mi_raw, mi_info, mi_back>>
open_vars == <<cf_pc, cf_ret, cf_raw>>
commit_vars == <<ac_pc, ac_last, ac_prev>>
order_vars == <<il_s, il_t, il_a, il_b, il_i>>
teardown_vars == <<td_strong, td_file, td_ret, td_obj, td_calls>>
each_vars == <<pm_ids, pm_values, pm_i, pm_pc, pm_ret, pm_cb, pm_ascii>>
name_vars == <<dn_op, dn_pc, dn_cap, dn_asked, dn_reply, dn_ret>>
value_vars == <<mode_vars, open_vars, commit_vars, order_vars, teardown_vars,
                each_vars, name_vars>>
codec_vars == <<flags_vars, event_vars, error_vars, value_vars>>
device_vars == <<collab_vars, ioctl_vars, dumb_vars, pixel_vars, blob_vars,
                 codec_vars>>
program_vars == <<atomic_vars, replay_vars, reader_vars>>

(***************************************************************************)
(* Helpers.                                                                *)
(***************************************************************************)

Last(q) == q[Len(q)]

Min(a, b) == IF a <= b THEN a ELSE b

RECURSIVE SumSeq(_)
SumSeq(s) == IF s = <<>> THEN 0 ELSE Head(s) + SumSeq(Tail(s))

RECURSIVE Flatten(_)
Flatten(ss) == IF ss = <<>> THEN <<>> ELSE Head(ss) \o Flatten(Tail(ss))

\* The keys of a BTreeMap in iteration order: ascending.
RECURSIVE BTreeKeys(_)
BTreeKeys(S) ==
    IF S = {} THEN <<>>
    ELSE LET m == CHOOSE x \in S : \A y \in S : x <= y
         IN  <<m>> \o BTreeKeys(S \ {m})

\* `n as u32`
AsU32(n) == n % U32_MODULUS

(***************************************************************************)
(* ObjectId and property values.                                           *)
(***************************************************************************)

ObjectTypeTag(kind) ==
    CASE kind = "Crtc" -> "0xcccccccc"
      [] kind = "Connector" -> "0xc0c0c0c0"
      [] kind = "Encoder" -> "0xe0e0e0e0"
      [] kind = "Mode" -> "0xdededede"
      [] kind = "Property" -> "0xb0b0b0b0"
      [] kind = "Framebuffer" -> "0xfbfbfbfb"
      [] kind = "Blob" -> "0xbbbbbbbb"
      [] kind = "Plane" -> "0xeeeeeeee"

\* A raw id that depends on the kind of the ObjectId.
as_raw_type_and_id_by_kind(obj_id) ==
    <<ObjectTypeTag(obj_id[1]),
      IF obj_id[1] = "Plane" THEN obj_id[2] + 1 ELSE obj_id[2]>>

as_raw_type_and_id(obj_id) == <<ObjectTypeTag(obj_id[1]), obj_id[2]>>

\* Every value converted as the plain integers are: nothing to keep alive.
into_raw_property_value_plain(value) == [raw |-> value.v, drop |-> <<>>]

\* (raw value, the object to keep alive until the request is reset/dropped)
into_raw_property_value(value) ==
    IF value.kind = "BlobHandle"
    THEN [raw |-> value.v, drop |-> <<value.v>>]
    ELSE [raw |-> value.v, drop |-> <<>>]

(***************************************************************************)
(* AtomicRequest.                                                          *)
(***************************************************************************)

AtomicRequestObj_new == [prop_ids |-> <<>>, prop_values |-> <<>>]

AtomicRequest_new == [objs |-> <<>>, total_props |-> 0, drops |-> <<>>]

\* reset() as it would be with truncate(1) in place of truncate(0).
reset_truncate1(r) ==
    [objs |-> [k \in DOMAIN r.objs |->
                 [prop_ids |-> SubSeq(r.objs[k].prop_ids, 1,
                                      Min(1, Len(r.objs[k].prop_ids))),
                  prop_values |-> SubSeq(r.objs[k].prop_values, 1,
                                      Min(1, Len(r.objs[k].prop_values)))]],
     total_props |-> 0,
     drops |-> <<>>]

\* reset(): every entry of the table is kept, its two lists are truncated.
reset(r) ==
    [objs |-> [k \in DOMAIN r.objs |-> AtomicRequestObj_new],
     total_props |-> 0,
     drops |-> <<>>]

\* The inner fn set(): the entry for the raw id is looked up or created, the
\* pair is pushed, then the counter is incremented.  The result says whether
\* the call panicked; the pushes precede the increment, so they are kept.
set(r, obj_id, prop_id, value, bld) ==
    LET raw == as_raw_type_and_id(obj_id)[2]
        obj == IF raw \in DOMAIN r.objs THEN r.objs[raw] ELSE AtomicRequestObj_new
        pushed == [prop_ids |-> Append(obj.prop_ids, prop_id),
                   prop_values |-> Append(obj.prop_values, value)]
        objs2 == [k \in (DOMAIN r.objs) \cup {raw} |->
                     IF k = raw THEN pushed ELSE r.objs[k]]
        overflow == r.total_props + 1 > U32_MAX
    IN  IF overflow /\ bld = "overflow_checks"
        THEN [req |-> [r EXCEPT !.objs = objs2], panic |-> TRUE]
        ELSE [req |-> [r EXCEPT !.objs = objs2,
                                !.total_props = AsU32(r.total_props + 1)],
              panic |-> Cardinality(DOMAIN objs2) > U32_MAX]

set_property(r, obj_id, prop_id, value, bld) ==
    LET rv == into_raw_property_value(value)
        r1 == [r EXCEPT !.drops = r.drops \o rv.drop]
    IN  set(r1, obj_id, prop_id, rv.raw, bld)

for_ioctl_req(r) ==
    LET keys == BTreeKeys(DOMAIN r.objs)
    IN  [obj_ids |-> keys,
         obj_prop_counts |-> [i \in 1..Len(keys) |-> AsU32(Len(r.objs[keys[i]].prop_ids))],
         prop_ids |-> Flatten([i \in 1..Len(keys) |->
                        [j \in 1..Min(Len(r.objs[keys[i]].prop_ids),
                                      Len(r.objs[keys[i]].prop_values)) |->
                            r.objs[keys[i]].prop_ids[j]]]),
         prop_values |-> Flatten([i \in 1..Len(keys) |->
                        [j \in 1..Min(Len(r.objs[keys[i]].prop_ids),
                                      Len(r.objs[keys[i]].prop_values)) |->
                            r.objs[keys[i]].prop_values[j]]])]

\* The number of properties a request stores.
Stored(r) == SumSeq([i \in 1..Len(BTreeKeys(DOMAIN r.objs)) |->
                        Len(r.objs[BTreeKeys(DOMAIN r.objs)[i]].prop_ids)])

(***************************************************************************)
(* Actions on the AtomicRequest.                                           *)
(***************************************************************************)

New ==
    /\ ~aborted
    /\ req' = AtomicRequest_new
    /\ panicked' = FALSE
    /\ log' = <<>>
    /\ touched' = {}
    /\ was_reset' = FALSE
    /\ UNCHANGED <<build, aborted>>
    /\ UNCHANGED replay_vars
    /\ UNCHANGED reader_vars
    /\ UNCHANGED device_vars

SetProperty ==
    /\ ~panicked
    /\ ~aborted
    /\ Stored(req) < MaxStored
    /\ \E o \in ObjectIds, p \in PropertyIds, v \in PropertyValues :
          LET out == set_property(req, o, p, v, build)
          IN  /\ req' = out.req
              /\ panicked' = out.panic
              /\ log' = IF out.panic THEN log
                        ELSE Append(log, <<o[2], p, v.v>>)
              /\ touched' = IF out.panic THEN touched ELSE touched \cup {o[2]}
    /\ UNCHANGED <<build, aborted, was_reset>>
    /\ UNCHANGED replay_vars
    /\ UNCHANGED reader_vars
    /\ UNCHANGED device_vars

Reset ==
    /\ ~panicked
    /\ ~aborted
    /\ req' = reset(req)
    /\ log' = <<>>
    /\ was_reset' = TRUE
    /\ UNCHANGED <<build, panicked, aborted, touched>>
    /\ UNCHANGED replay_vars
    /\ UNCHANGED reader_vars
    /\ UNCHANGED device_vars

\* set_property has to allocate when the object has no entry yet: the entry
\* is inserted with two Vec::new() lists of capacity 0 and reserve(1) must
\* obtain memory for each.
MustAllocate(r, obj_id) == as_raw_type_and_id(obj_id)[2] \notin DOMAIN r.objs

\* set_property when the allocator fails: Vec::reserve (and Vec::push on the
\* drops list, and the insertion into the BTreeMap) do not return the failure,
\* they abort the process; set_property returns nothing in any case.
SetPropertyAllocFails ==
    /\ ~panicked
    /\ ~aborted
    /\ \E o \in ObjectIds : MustAllocate(req, o)
    /\ aborted' = TRUE
    /\ UNCHANGED <<build, req, panicked, log, touched, was_reset>>
    /\ UNCHANGED replay_vars
    /\ UNCHANGED reader_vars
    /\ UNCHANGED device_vars

(***************************************************************************)
(* The replay scenario: a caller builds a call sequence S on a new         *)
(* request, takes its serialization, calls reset() and replays S.          *)
(***************************************************************************)

ReplayInputs ==
    {<<"Crtc", 1>>, <<"Connector", 2>>} \X PropertyIds \X PropertyValues

ReplayStart ==
    /\ rp_pc = "idle"
    /\ \E n \in 1..MaxStored : \E S \in [1..n -> ReplayInputs] :
          rp_script' = S
    /\ rp_pc' = "build"
    /\ rp_i' = 1
    /\ rp_req' = AtomicRequest_new
    /\ UNCHANGED rp_before
    /\ UNCHANGED atomic_vars
    /\ UNCHANGED reader_vars
    /\ UNCHANGED device_vars

\* One set_property call of S, in the build or in the replay phase.
ReplayCall(phase, after) ==
    /\ rp_pc = phase
    /\ rp_i <= Len(rp_script)
    /\ LET c == rp_script[rp_i]
           out == set_property(rp_req, c[1], c[2], c[3], build)
       IN  /\ rp_req' = out.req
           /\ rp_pc' = IF out.panic THEN "panicked"
                       ELSE IF rp_i = Len(rp_script) THEN after ELSE phase
    /\ rp_i' = rp_i + 1
    /\ UNCHANGED <<rp_script, rp_before>>
    /\ UNCHANGED atomic_vars
    /\ UNCHANGED reader_vars
    /\ UNCHANGED device_vars

ReplayBuild == ReplayCall("build", "built")

ReplayReset ==
    /\ rp_pc = "built"
    /\ rp_before' = for_ioctl_req(rp_req)
    /\ rp_req' = reset(rp_req)
    /\ rp_pc' = "replay"
    /\ rp_i' = 1
    /\ UNCHANGED rp_script
    /\ UNCHANGED atomic_vars
    /\ UNCHANGED reader_vars
    /\ UNCHANGED device_vars

ReplayAgain == ReplayCall("replay", "done")

(***************************************************************************)
(* Error mapping (src/src/result.rs).                                      *)
(***************************************************************************)

\* Outcomes of an exchange other than success.
Errnos == {"EINTR", "ENOENT", "ENOMEM", "EFAULT"}

\* impl From<linux_io::result::Error> for Error
Error_from(e) ==
    CASE e = "EINVAL" -> "Invalid"
      [] e = "ENOENT" -> "NonExist"
      [] e = "ENOMEM" -> "SystemMem"
      [] e = "ENOSPC" -> "SystemMem"
      [] e = "EPERM" -> "Permission"
      [] e = "EACCES" -> "Permission"
      [] e = "ENODEV" -> "Disconnected"
      [] e = "EOPNOTSUPP" -> "NotSupported"
      [] e = "ENXIO" -> "RemoteFailure"
      [] e = "EIO" -> "Died"
      [] OTHER -> "Other(" \o e \o ")"

\* impl From<TryReserveError> for Error
Error_from_TryReserveError == "SystemMem"

(***************************************************************************)
(* Property metadata: type decoding and names (src/src/modeset/props.rs,   *)
(* src/src/ioctl.rs, src/src/lib.rs).                                      *)
(***************************************************************************)

\* The number of low bits of a flags word that vary in the model.  The
\* program's flags are u32; bits 0 to 5 are the legacy bits and bits 6 up
\* hold the extended type.
FlagBits == 8

Flags == 0..((2 ^ FlagBits) - 1)

RECURSIVE BitAnd(_, _)
BitAnd(a, b) ==
    IF a = 0 \/ b = 0
    THEN 0
    ELSE (2 * BitAnd(a \div 2, b \div 2))
         + (IF a % 2 = 1 /\ b % 2 = 1 THEN 1 ELSE 0)

BitOr(a, b) == (a + b) - BitAnd(a, b)

DRM_MODE_PROP_PENDING == 1
DRM_MODE_PROP_RANGE == 2
DRM_MODE_PROP_IMMUTABLE == 4
DRM_MODE_PROP_ENUM == 8
DRM_MODE_PROP_BLOB == 16
DRM_MODE_PROP_BITMASK == 32

DRM_MODE_PROP_LEGACY_TYPE ==
    BitOr(BitOr(DRM_MODE_PROP_RANGE, DRM_MODE_PROP_ENUM),
          BitOr(DRM_MODE_PROP_BLOB, DRM_MODE_PROP_BITMASK))

\* 0x0000ffc0
DRM_MODE_PROP_EXTENDED_TYPE == 65472

\* n << 6
DRM_MODE_PROP_TYPE(n) == n * 64

DRM_MODE_PROP_OBJECT == DRM_MODE_PROP_TYPE(1)
DRM_MODE_PROP_SIGNED_RANGE == DRM_MODE_PROP_TYPE(2)

\* from_raw_flags reading the immutable flag from the PENDING bit.
from_raw_flags_pending_bit(flags) ==
    LET type_raw == BitAnd(flags, BitOr(DRM_MODE_PROP_LEGACY_TYPE,
                                        DRM_MODE_PROP_EXTENDED_TYPE))
    IN  [typ |-> CASE type_raw = DRM_MODE_PROP_RANGE -> "Range"
                   [] type_raw = DRM_MODE_PROP_ENUM -> "Enum"
                   [] type_raw = DRM_MODE_PROP_BLOB -> "Blob"
                   [] type_raw = DRM_MODE_PROP_BITMASK -> "Bitmask"
                   [] type_raw = DRM_MODE_PROP_OBJECT -> "Object"
                   [] type_raw = DRM_MODE_PROP_SIGNED_RANGE -> "SignedRange"
                   [] OTHER -> "Unknown",
         immutable |-> BitAnd(flags, DRM_MODE_PROP_PENDING) # 0]

\* PropertyType::from_raw_flags: the whole masked type field is matched
\* against the six known values.
from_raw_flags(flags) ==
    LET immutable == BitAnd(flags, DRM_MODE_PROP_IMMUTABLE) # 0
        type_raw == BitAnd(flags, BitOr(DRM_MODE_PROP_LEGACY_TYPE,
                                        DRM_MODE_PROP_EXTENDED_TYPE))
        typ == CASE type_raw = DRM_MODE_PROP_RANGE -> "Range"
                 [] type_raw = DRM_MODE_PROP_ENUM -> "Enum"
                 [] type_raw = DRM_MODE_PROP_BLOB -> "Blob"
                 [] type_raw = DRM_MODE_PROP_BITMASK -> "Bitmask"
                 [] type_raw = DRM_MODE_PROP_OBJECT -> "Object"
                 [] type_raw = DRM_MODE_PROP_SIGNED_RANGE -> "SignedRange"
                 [] OTHER -> "Unknown"
    IN  [typ |-> typ, immutable |-> immutable]

\* ObjectPropMeta::property_type
property_type(flags) == from_raw_flags(flags).typ

\* The test at the head of ObjectPropMeta::range.
is_range(flags) ==
    BitAnd(flags, BitOr(DRM_MODE_PROP_RANGE, DRM_MODE_PROP_SIGNED_RANGE)) # 0

\* The test at the head of ObjectPropMeta::enum_members.
is_enum(flags) ==
    BitAnd(flags, BitOr(DRM_MODE_PROP_ENUM, DRM_MODE_PROP_BITMASK)) # 0

NotDecoded ==
    [called |-> FALSE, ret |-> [typ |-> "Unknown", immutable |-> FALSE]]

\* A caller decodes a flags word.
FromRawFlags ==
    /\ ~fl_out.called
    /\ \E flags \in Flags :
          /\ fl_flags' = flags
          /\ fl_out' = [called |-> TRUE, ret |-> from_raw_flags(flags)]
    /\ UNCHANGED program_vars
    /\ UNCHANGED <<collab_vars, ioctl_vars, dumb_vars, pixel_vars, blob_vars>>
    /\ UNCHANGED <<event_vars, error_vars, value_vars>>

\* The length of the name field of DrmModeGetProperty in the model; the
\* program's is DRM_PROP_NAME_LEN = 32 bytes.
NameLen == 2

\* Bytes of a name: NUL, a letter, the last ASCII byte, and two that are
\* not ASCII.
NameBytes == {0, 97, 127, 128, 255}

Names == [1..NameLen -> NameBytes]

\* is_ascii looking only at the bytes before the first NUL.
is_ascii_to_nul(name) ==
    \A i \in 1..Len(name) :
        (\A j \in 1..(i - 1) : name[j] # 0) => name[i] <= 127

\* <[u8]>::is_ascii: every byte of the field is at most 0x7F.
is_ascii(name) == \A i \in 1..Len(name) : name[i] <= 127

\* No ObjectPropMeta has been fetched.
NoName == [fetched |-> <<>>, given |-> FALSE]

(***************************************************************************)
(* The two-call snapshot readers (src/src/lib.rs, src/src/modeset/props.rs)*)
(***************************************************************************)

ReaderOps == {"object_properties", "each_object_property_meta", "resources",
              "connector_state", "values", "enum_members", "range",
              "property_meta"}

\* The arrays one exchange of the operation's main request fills, in the
\* order of the count fields the code compares.
Arrays(op) ==
    CASE op = "resources" -> <<"fbs", "connectors", "crtcs", "encoders">>
      [] op = "connector_state" -> <<"modes", "props", "encoders">>
      [] op = "object_properties" -> <<"props">>
      [] op = "each_object_property_meta" -> <<"props">>
      [] op = "values" -> <<"values">>
      [] op = "enum_members" -> <<"enum_blobs">>
      [] op = "planes" -> <<"planes">>
      [] OTHER -> <<>>

CountVectors(op) == [1..Len(Arrays(op)) -> 0..MaxCount]

\* A zeroed request struct: every count field 0, every pointer null.
zeroed(op) == [i \in 1..Len(Arrays(op)) |-> 0]

\* Every reader retrying with the reported counts, none probing again.
ProbeInLoop_never(op) == FALSE

\* resources and connector_state zero the struct and probe again inside the
\* loop; the other readers probe once, before the loop, or not at all.
ProbeInLoop(op) == op \in {"resources", "connector_state"}

\* Every reader unwrapping the result of the exchange.
Unwraps_all(op) == TRUE

\* range, values and enum_members unwrap() the result of the exchange.
Unwraps(op) == op \in {"values", "enum_members", "range"}

\* An element no exchange has written.
Uninit == -1

\* What a content exchange leaves in buffers of the given capacities when the
\* collaborator reports `reply` elements: the elements that fit are written,
\* each tagged here with the count the writing exchange reported.
Populate(cap, reply) ==
    [i \in 1..Len(cap) |->
        [j \in 1..cap[i] |-> IF j <= Min(cap[i], reply[i]) THEN reply[i] ELSE Uninit]]

\* set_len with one element more than asked for.
set_len_plus1(bufs, len) ==
    [i \in 1..Len(bufs) |->
        [j \in 1..(len[i] + 1) |-> IF j <= Len(bufs[i]) THEN bufs[i][j] ELSE Uninit]]

\* Vec::set_len(len) on buffers holding `bufs` within their capacity.
set_len(bufs, len) ==
    [i \in 1..Len(bufs) |->
        [j \in 1..len[i] |-> IF j <= Len(bufs[i]) THEN bufs[i][j] ELSE Uninit]]

\* A check after the content exchange that never accepts the reply.
CountsChanged_always(requested, reply) == TRUE

\* The check after the content exchange, with the last array's count left
\* out of the comparison.
CountsChanged_skip_last(requested, reply) ==
    \E i \in 1..(Len(requested) - 1) : reply[i] # requested[i]

\* The check after the content exchange: some count differs from the one
\* requested.
CountsChanged(requested, reply) ==
    \E i \in 1..Len(requested) : reply[i] # requested[i]

\* vec_with_capacity: try_reserve_exact of zero elements cannot fail.
AllocOutcomes(c) ==
    IF \A i \in 1..Len(c) : c[i] = 0 THEN {TRUE} ELSE {TRUE, FALSE}

OkResult(arrays, planes, calls) ==
    [ok |-> TRUE, err |-> "", arrays |-> arrays, planes |-> planes, calls |-> calls]

ErrResult(e) ==
    [ok |-> FALSE, err |-> e, arrays |-> <<>>, planes |-> <<>>, calls |-> <<>>]

NoResult == [ok |-> FALSE, err |-> "pending", arrays |-> <<>>, planes |-> <<>>,
             calls |-> <<>>]

NoIter == [probe |-> <<>>, content |-> <<>>, probed |-> FALSE, answered |-> FALSE]

\* The script of the retry property: the first reply (the probe) reports N,
\* the next one (the first content call) some M # N, every later one N.
\* phase 0: nothing reported yet; 1: N reported; 2: then M; 3: not followed.
ScriptOff == [phase |-> 3, N |-> <<>>]

ScriptNext(sc, reply) ==
    CASE sc.phase = 0 -> [phase |-> 1, N |-> reply]
      [] sc.phase = 1 -> IF reply # sc.N THEN [phase |-> 2, N |-> sc.N] ELSE ScriptOff
      [] sc.phase = 2 -> IF reply = sc.N THEN sc ELSE ScriptOff
      [] OTHER -> ScriptOff

\* The request the reader is about to issue: its name and the capacities of
\* the buffers attached to it.
Request ==
    CASE rd_pc = "probe" -> [ioctl |-> rd_op, cap |-> zeroed(rd_op)]
      [] rd_pc = "content" -> [ioctl |-> rd_op, cap |-> rd_count]
      [] rd_pc = "planes_probe" -> [ioctl |-> "planes", cap |-> zeroed("planes")]
      [] rd_pc = "planes_content" -> [ioctl |-> "planes", cap |-> rd_count]
      [] rd_pc = "range_content" -> [ioctl |-> "GETPROPERTY", cap |-> rd_count]
      [] OTHER -> [ioctl |-> "GETPROPERTY", cap |-> <<>>]

Exchanging == rd_pc \in {"probe", "content", "planes_probe", "planes_content",
                        "meta", "range_content", "property_meta"}

NoAnswer == [mismatch |-> FALSE, reply |-> <<>>]

\* The next value of a ghost variable: `value` while the replies are recorded.
Recorded(value, unrecorded) == IF co_recorded THEN value ELSE unrecorded

\* drm_ioctl returns an outcome other than EINTR: the exchange is answered.
Answered(mismatch, reply) ==
    /\ rd_answered' = Recorded([mismatch |-> mismatch, reply |-> reply], NoAnswer)
    /\ rd_interrupted' = FALSE

\* Reserve buffers for counts c, then go on to the content exchange `next`;
\* a failed reservation returns SystemMem.
Reserve(c, next, ok) ==
    IF ok
    THEN /\ rd_pc' = next
         /\ rd_count' = c
         /\ rd_result' = rd_result
         /\ rd_err' = rd_err
    ELSE /\ rd_pc' = "done"
         /\ rd_count' = c
         /\ rd_result' = ErrResult(Error_from_TryReserveError)
         /\ rd_err' = "reserve"

Return(result) ==
    /\ rd_pc' = "done"
    /\ rd_result' = result
    /\ UNCHANGED <<rd_count, rd_err>>

\* The operations of an ObjectPropMeta that test its flags.
FlagReaders == {"range", "enum_members"}

\* A caller starts one of the readers.  values and enum_members start from
\* the counts of the ObjectPropMeta they are called on; range and
\* enum_members test its flags, drawn from `flagset`; range checks that it
\* has exactly two values, and reads into a pair on the stack; property_meta
\* issues its one exchange.
CallWith(flagset) ==
    /\ rd_pc = "idle"
    /\ \E op \in ReaderOps :
       \E flags \in (IF op \in FlagReaders THEN flagset ELSE {0}) :
          /\ rd_op' = op
          /\ rd_flags' = flags
          /\ IF op = "range"
             THEN \E two \in BOOLEAN :
                     /\ rd_script' = ScriptOff
                     /\ IF ~is_range(flags)
                        THEN Return(ErrResult("NotSupported"))
                        ELSE IF ~two
                        THEN Return(ErrResult("RemoteFailure"))
                        ELSE /\ rd_pc' = "range_content"
                             /\ rd_count' = <<2>>
                             /\ UNCHANGED <<rd_result, rd_err>>
             ELSE IF op \in {"values", "enum_members"}
             THEN \E n \in CountVectors(op) :
                     /\ rd_script' = Recorded([phase |-> 1, N |-> n], ScriptOff)
                     /\ IF op = "values" /\ n[1] = 0
                        THEN Return(OkResult(<<<<>>>>, <<>>, <<>>))
                        ELSE IF op = "enum_members" /\ ~is_enum(flags)
                        THEN Return(OkResult(<<<<>>>>, <<>>, <<>>))
                        ELSE \E ok \in AllocOutcomes(n) : Reserve(n, "content", ok)
             ELSE IF op = "property_meta"
             THEN /\ rd_script' = ScriptOff
                  /\ rd_pc' = "property_meta"
                  /\ rd_count' = <<>>
                  /\ UNCHANGED <<rd_result, rd_err>>
             ELSE /\ rd_script' = Recorded([phase |-> 0, N |-> <<>>], ScriptOff)
                  /\ rd_pc' = "probe"
                  /\ rd_count' = zeroed(op)
                  /\ UNCHANGED <<rd_result, rd_err>>
    /\ UNCHANGED <<rd_ret, rd_i, rd_interrupted, rd_answered, rd_iter, rd_name>>
    /\ UNCHANGED atomic_vars
    /\ UNCHANGED replay_vars
    /\ UNCHANGED device_vars

\* The flags of the ObjectPropMeta in the general reader scenario: no type
\* bit, and each of the types range and enum_members accept.
MetaFlags == {0, DRM_MODE_PROP_RANGE, DRM_MODE_PROP_ENUM}

Call == CallWith(MetaFlags)

\* The size probe of the main request is answered, with counts of `replies`.
ProbeFrom(replies) ==
    /\ rd_pc = "probe"
    /\ \E reply \in replies :
          /\ Answered(FALSE, reply)
          /\ rd_iter' = Recorded([probe |-> reply, content |-> <<>>,
                                  probed |-> TRUE, answered |-> FALSE], NoIter)
          /\ rd_script' = ScriptNext(rd_script, reply)
          /\ IF rd_op = "each_object_property_meta" /\ reply[1] = 0
             THEN Return(OkResult(<<<<>>>>, <<>>, <<>>))
             ELSE \E ok \in AllocOutcomes(reply) : Reserve(reply, "content", ok)
    /\ UNCHANGED <<rd_op, rd_ret, rd_i>>
    /\ UNCHANGED props_vars
    /\ UNCHANGED atomic_vars
    /\ UNCHANGED replay_vars
    /\ UNCHANGED device_vars

Probe == ProbeFrom(CountVectors(rd_op))

\* The content exchange of the main request is answered, with counts of
\* `replies`.
ContentFrom(replies) ==
    /\ rd_pc = "content"
    /\ \E reply \in replies :
          /\ Answered(CountsChanged(rd_count, reply), reply)
          /\ rd_iter' = Recorded([rd_iter EXCEPT !.content = reply,
                                                 !.answered = TRUE], NoIter)
          /\ rd_script' = ScriptNext(rd_script, reply)
          /\ IF CountsChanged(rd_count, reply)
             THEN /\ IF ProbeInLoop(rd_op)
                     THEN /\ rd_pc' = "probe"
                          /\ rd_count' = zeroed(rd_op)
                          /\ UNCHANGED <<rd_result, rd_err>>
                     ELSE \E ok \in AllocOutcomes(reply) : Reserve(reply, "content", ok)
                  /\ UNCHANGED <<rd_ret, rd_i>>
             ELSE LET arrays == set_len(Populate(rd_count, reply), rd_count)
                  IN  CASE rd_op = "resources" ->
                             /\ rd_ret' = arrays
                             /\ rd_pc' = "planes_probe"
                             /\ rd_count' = zeroed("planes")
                             /\ UNCHANGED <<rd_result, rd_err, rd_i>>
                        [] rd_op = "each_object_property_meta" /\ rd_count[1] > 0 ->
                             /\ rd_ret' = arrays
                             /\ rd_pc' = "meta"
                             /\ rd_i' = 1
                             /\ UNCHANGED <<rd_result, rd_err, rd_count>>
                        [] OTHER ->
                             /\ Return(OkResult(arrays, <<>>, <<>>))
                             /\ UNCHANGED <<rd_ret, rd_i>>
    /\ UNCHANGED <<rd_op>>
    /\ UNCHANGED props_vars
    /\ UNCHANGED atomic_vars
    /\ UNCHANGED replay_vars
    /\ UNCHANGED device_vars

Content == ContentFrom(CountVectors(rd_op))

\* resources: the size probe of the plane request is answered.
PlanesProbeFrom(replies) ==
    /\ rd_pc = "planes_probe"
    /\ \E reply \in replies :
          /\ Answered(FALSE, reply)
          /\ \E ok \in AllocOutcomes(reply) : Reserve(reply, "planes_content", ok)
    /\ UNCHANGED <<rd_op, rd_ret, rd_i, rd_iter, rd_script>>
    /\ UNCHANGED props_vars
    /\ UNCHANGED atomic_vars
    /\ UNCHANGED replay_vars
    /\ UNCHANGED device_vars

PlanesProbe == PlanesProbeFrom(CountVectors("planes"))

\* resources: the content exchange of the plane request is answered.
PlanesContentFrom(replies) ==
    /\ rd_pc = "planes_content"
    /\ \E reply \in replies :
          /\ Answered(CountsChanged(rd_count, reply), reply)
          /\ IF CountsChanged(rd_count, reply)
             THEN /\ rd_pc' = "planes_probe"
                  /\ rd_count' = zeroed("planes")
                  /\ UNCHANGED <<rd_result, rd_err>>
             ELSE Return(OkResult(rd_ret,
                                  set_len(Populate(rd_count, reply), rd_count)[1],
                                  <<>>))
    /\ UNCHANGED <<rd_op, rd_ret, rd_i, rd_iter, rd_script>>
    /\ UNCHANGED props_vars
    /\ UNCHANGED atomic_vars
    /\ UNCHANGED replay_vars
    /\ UNCHANGED device_vars

PlanesContent == PlanesContentFrom(CountVectors("planes"))

\* each_object_property_meta: the GETPROPERTY exchange for the next property
\* of the validated list is answered; the callback gets the property unless
\* its name is not ASCII.
Meta ==
    /\ rd_pc = "meta"
    /\ Answered(FALSE, <<>>)
    /\ \E name \in Names :
          LET ascii == is_ascii(name)
              calls == IF ascii THEN Append(rd_result.calls, rd_i)
                       ELSE rd_result.calls
          IN  /\ rd_name' = [fetched |-> name, given |-> ascii]
              /\ IF rd_i = Len(rd_ret[1])
                 THEN Return(OkResult(rd_ret, <<>>, calls))
                 ELSE /\ rd_result' = [rd_result EXCEPT !.calls = calls]
                      /\ UNCHANGED <<rd_pc, rd_count, rd_err>>
    /\ rd_i' = rd_i + 1
    /\ UNCHANGED <<rd_op, rd_ret, rd_iter, rd_script, rd_flags>>
    /\ UNCHANGED atomic_vars
    /\ UNCHANGED replay_vars
    /\ UNCHANGED device_vars

\* property_meta: the GETPROPERTY exchange is answered; a property whose
\* name is not ASCII is refused, any other is returned as an ObjectPropMeta.
PropertyMeta ==
    /\ rd_pc = "property_meta"
    /\ Answered(FALSE, <<>>)
    /\ \E name \in Names :
          IF ~is_ascii(name)
          THEN /\ rd_name' = [fetched |-> name, given |-> FALSE]
               /\ Return(ErrResult("NotSupported"))
          ELSE /\ rd_name' = [fetched |-> name, given |-> TRUE]
               /\ Return(OkResult(<<>>, <<>>, <<>>))
    /\ UNCHANGED <<rd_op, rd_ret, rd_i, rd_iter, rd_script, rd_flags>>
    /\ UNCHANGED atomic_vars
    /\ UNCHANGED replay_vars
    /\ UNCHANGED device_vars

\* range: the GETPROPERTY exchange is answered; anything but two values is
\* a RemoteFailure.
RangeContent ==
    /\ rd_pc = "range_content"
    /\ \E two \in BOOLEAN :
          /\ Answered(FALSE, <<>>)
          /\ IF two
             THEN Return(OkResult(<<<<2, 2>>>>, <<>>, <<>>))
             ELSE Return(ErrResult("RemoteFailure"))
    /\ UNCHANGED <<rd_op, rd_ret, rd_i, rd_iter, rd_script>>
    /\ UNCHANGED props_vars
    /\ UNCHANGED atomic_vars
    /\ UNCHANGED replay_vars
    /\ UNCHANGED device_vars

\* drm_ioctl: the exchange was interrupted and is issued again, unchanged.
Interrupted ==
    /\ Exchanging
    /\ rd_interrupted' = TRUE
    /\ UNCHANGED <<rd_op, rd_pc, rd_count, rd_ret, rd_i, rd_result,
                   rd_answered, rd_iter, rd_script, rd_err>>
    /\ UNCHANGED props_vars
    /\ UNCHANGED atomic_vars
    /\ UNCHANGED replay_vars
    /\ UNCHANGED device_vars

\* The exchange fails with an error other than EINTR: `?` returns it mapped,
\* unwrap() panics.
ExchangeFails ==
    /\ Exchanging
    /\ Answered(FALSE, <<>>)
    /\ \E e \in Errnos \ {"EINTR"} :
          /\ rd_err' = e
          /\ IF Unwraps(rd_op)
             THEN /\ rd_pc' = "panicked"
                  /\ UNCHANGED rd_result
             ELSE /\ rd_pc' = "done"
                  /\ rd_result' = ErrResult(Error_from(e))
    /\ UNCHANGED <<rd_op, rd_count, rd_ret, rd_i, rd_iter, rd_script>>
    /\ UNCHANGED props_vars
    /\ UNCHANGED atomic_vars
    /\ UNCHANGED replay_vars
    /\ UNCHANGED device_vars

(***************************************************************************)
(* The snapshot readers against a collaborator that is, from some point    *)
(* on, stable, or that changes a count between every probe and its content *)
(* call.                                                                   *)
(***************************************************************************)

\* The readers whose retry loop compares the counts of a probe with those of
\* the content call.
LoopReaders == {"resources", "connector_state", "object_properties"}

NoCounts == [main |-> <<>>, planes |-> <<>>]

LoopCall ==
    /\ Call
    /\ rd_op' \in LoopReaders

\* From before the call on, the collaborator changes a count between every
\* probe and its content call.
BecomeAdverse ==
    /\ co_mode = "any"
    /\ rd_pc = "idle"
    /\ co_mode' = "adverse"
    /\ UNCHANGED <<co_counts, co_recorded>>
    /\ UNCHANGED program_vars
    /\ UNCHANGED <<ioctl_vars, dumb_vars, pixel_vars, blob_vars, codec_vars>>

\* The counts the collaborator can have when it settles: any, for the
\* request in progress and for the plane request of resources.
SettledMain ==
    IF rd_pc \in {"probe", "content"} THEN CountVectors(rd_op) ELSE {<<>>}

SettledPlanes ==
    IF rd_op = "resources" THEN CountVectors("planes") ELSE {<<>>}

\* From now on the counts of the collaborator stay as they are and every
\* exchange succeeds.
Settle ==
    /\ co_mode = "any"
    /\ rd_pc \notin {"idle", "done"}
    /\ co_mode' = "stable"
    /\ \E m \in SettledMain, p \in SettledPlanes :
          co_counts' = [main |-> m, planes |-> p]
    /\ UNCHANGED co_recorded
    /\ UNCHANGED program_vars
    /\ UNCHANGED <<ioctl_vars, dumb_vars, pixel_vars, blob_vars, codec_vars>>

\* A step of the reader while the collaborator answers as it likes.
AnyStep ==
    /\ co_mode = "any"
    /\ \/ Probe
       \/ Content
       \/ PlanesProbe
       \/ PlanesContent
       \/ Interrupted
       \/ ExchangeFails

\* A step of the reader once the collaborator is stable: the exchange is
\* answered, with the counts the collaborator has.
StableStep ==
    /\ co_mode = "stable"
    /\ \/ ProbeFrom({co_counts.main})
       \/ ContentFrom({co_counts.main})
       \/ PlanesProbeFrom({co_counts.planes})
       \/ PlanesContentFrom({co_counts.planes})

\* A step of the reader against the adverse collaborator: exchanges and
\* reservations succeed, and the content call reports counts other than
\* those the probe reported.
AdverseStep ==
    /\ co_mode = "adverse"
    /\ \/ Probe
       \/ ContentFrom({r \in CountVectors(rd_op) : r # rd_count})
    /\ rd_err' = "none"

NextLoop ==
    \/ LoopCall
    \/ BecomeAdverse
    \/ Settle
    \/ AnyStep
    \/ StableStep
    \/ AdverseStep

(***************************************************************************)
(* drm_ioctl (src/src/lib.rs).                                             *)
(***************************************************************************)

\* The most exchanges one drm_ioctl call issues in the model.
MaxExchanges == 3

\* Requests with their argument.
IoctlRequests ==
    {"MODE_GETRESOURCES", "MODE_ATOMIC", "MODE_RMFB", "MODE_DESTROY_DUMB"}
        \X {1, 2}

Outcomes == {"Ok"} \cup Errnos

\* A loop that retries after any error.
Retries_any_error(ret) == ret # "Ok"

\* A loop that returns whatever the first exchange gave.
Retries_never(ret) == FALSE

\* `matches!(ret, Err(linux_io::result::EINTR))`
Retries(ret) == ret = "EINTR"

drm_ioctl_call ==
    /\ io_pc = "idle"
    /\ \E r \in IoctlRequests : io_req' = r
    /\ io_pc' = "loop"
    /\ io_issued' = <<>>
    /\ io_outcomes' = <<>>
    /\ io_ret' = "none"
    /\ UNCHANGED program_vars
    /\ UNCHANGED <<collab_vars, dumb_vars, pixel_vars, blob_vars, codec_vars>>

\* One turn of the loop: the exchange is issued with a copy of the argument
\* and its outcome is returned unless it is EINTR.
drm_ioctl_loop_from(outcomes) ==
    /\ io_pc = "loop"
    /\ Len(io_issued) < MaxExchanges
    /\ \E ret \in outcomes :
          /\ io_issued' = Append(io_issued, io_req)
          /\ io_outcomes' = Append(io_outcomes, ret)
          /\ IF Retries(ret)
             THEN /\ io_pc' = "loop"
                  /\ io_ret' = io_ret
             ELSE /\ io_pc' = "returned"
                  /\ io_ret' = ret
    /\ UNCHANGED io_req
    /\ UNCHANGED program_vars
    /\ UNCHANGED <<collab_vars, dumb_vars, pixel_vars, blob_vars, codec_vars>>

\* The loop of a call made with one of IoctlRequests.
drm_ioctl_loop ==
    /\ io_req \in IoctlRequests
    /\ drm_ioctl_loop_from(Outcomes)

NextIoctl == drm_ioctl_call \/ drm_ioctl_loop

(***************************************************************************)
(* Dumb buffers: Card::create_dumb_buffer (src/src/lib.rs), util::Cleanup  *)
(* (src/src/util.rs) and Drop for DumbBuffer (src/src/modeset/buffer.rs).  *)
(* An exchange here is a whole drm_ioctl call: its outcome is never EINTR. *)
(***************************************************************************)

\* Ids the kernel hands out for buffer handles and for framebuffers; the two
\* number spaces overlap.
KernelIds == {1, 2}

\* The steps of create_dumb_buffer that can fail, in order.
CreateSteps == <<"CREATE_DUMB", "ADDFB", "MAP_DUMB", "mmap">>

StepIndex(step) == CHOOSE i \in 1..Len(CreateSteps) : CreateSteps[i] = step

\* The Cleanup guards that exist, uncancelled, while the step runs, in the
\* order of their declaration.
Armed(step) ==
    CASE step = "CREATE_DUMB" -> <<>>
      [] step = "ADDFB" -> <<"cleanup_db">>
      [] OTHER -> <<"cleanup_db", "cleanup_fb">>

Reverse(q) == [i \in 1..Len(q) |-> q[Len(q) + 1 - i]]

\* Guards dropped in the order of their declaration.
DropOrder_declaration(guards) == guards

\* Local variables are dropped in the reverse order of their declaration.
DropOrder(guards) == Reverse(guards)

\* Both closures removing the framebuffer.
CleanupCall_rmfb_only(guard, handle, fb) == [op |-> "RMFB", arg |-> fb]

\* The closure of a Cleanup guard: the exchange it issues.
CleanupCall(guard, handle, fb) ==
    IF guard = "cleanup_fb"
    THEN [op |-> "RMFB", arg |-> fb]
    ELSE [op |-> "DESTROY_DUMB", arg |-> handle]

\* The argument of a step of create_dumb_buffer.
StepArg(step, handle) == IF step = "CREATE_DUMB" THEN 0 ELSE handle

CreateDumbBuffer ==
    /\ db_pc = "idle"
    /\ db_live
    /\ db_pc' = "CREATE_DUMB"
    /\ UNCHANGED <<db_live, db_calls, db_fail, db_result, db_pending,
                   db_handle, db_fb, db_life>>
    /\ UNCHANGED program_vars
    /\ UNCHANGED <<collab_vars, ioctl_vars, pixel_vars, blob_vars, codec_vars>>

\* One step of create_dumb_buffer succeeds: the next step follows, and after
\* the last one both guards are cancelled and the DumbBuffer is returned.
CreateStepOk ==
    /\ db_pc \in {CreateSteps[i] : i \in 1..Len(CreateSteps)}
    /\ db_calls' = Append(db_calls, [op |-> db_pc,
                                     arg |-> StepArg(db_pc, db_handle),
                                     ok |-> TRUE])
    /\ IF db_pc = "CREATE_DUMB"
       THEN \E h \in KernelIds : db_handle' = h
       ELSE UNCHANGED db_handle
    /\ IF db_pc = "ADDFB"
       THEN \E f \in KernelIds : db_fb' = f
       ELSE UNCHANGED db_fb
    /\ IF StepIndex(db_pc) < Len(CreateSteps)
       THEN /\ db_pc' = CreateSteps[StepIndex(db_pc) + 1]
            /\ UNCHANGED db_result
       ELSE /\ db_pc' = "held"
            /\ db_result' = "Ok"
    /\ db_life' = Append(db_life, Last(db_calls'))
    /\ UNCHANGED <<db_live, db_fail, db_pending>>
    /\ UNCHANGED program_vars
    /\ UNCHANGED <<collab_vars, ioctl_vars, pixel_vars, blob_vars, codec_vars>>

\* One step of create_dumb_buffer fails: `?` returns the error, and the
\* guards that exist are dropped on the way out.
CreateStepFails ==
    /\ db_pc \in {CreateSteps[i] : i \in 1..Len(CreateSteps)}
    /\ \E e \in Errnos \ {"EINTR"} :
          /\ db_calls' = Append(db_calls, [op |-> db_pc,
                                           arg |-> StepArg(db_pc, db_handle),
                                           ok |-> FALSE])
          /\ db_result' = Error_from(e)
    /\ db_fail' = db_pc
    /\ db_pending' = DropOrder(Armed(db_pc))
    /\ db_pc' = IF Armed(db_pc) = <<>> THEN "failed" ELSE "unwind"
    /\ db_life' = Append(db_life, Last(db_calls'))
    /\ UNCHANGED <<db_live, db_handle, db_fb>>
    /\ UNCHANGED program_vars
    /\ UNCHANGED <<collab_vars, ioctl_vars, pixel_vars, blob_vars, codec_vars>>

\* Drop for Cleanup: the closure runs; the outcome of its exchange is
\* ignored.  After the last guard the error reaches the caller.
CleanupDrop ==
    /\ db_pc = "unwind"
    /\ \E ok \in BOOLEAN :
          LET c == CleanupCall(Head(db_pending), db_handle, db_fb)
          IN  db_calls' = Append(db_calls, [op |-> c.op, arg |-> c.arg, ok |-> ok])
    /\ db_pending' = Tail(db_pending)
    /\ db_pc' = IF Tail(db_pending) = <<>> THEN "failed" ELSE "unwind"
    /\ db_life' = Append(db_life, Last(db_calls'))
    /\ UNCHANGED <<db_live, db_fail, db_result, db_handle, db_fb>>
    /\ UNCHANGED program_vars
    /\ UNCHANGED <<collab_vars, ioctl_vars, pixel_vars, blob_vars, codec_vars>>

\* The last Arc of the device file is dropped (Card::close, or the Card is
\* dropped) while the caller holds the DumbBuffer.
CloseCard ==
    /\ db_pc = "held"
    /\ db_live
    /\ db_live' = FALSE
    /\ UNCHANGED <<db_pc, db_calls, db_fail, db_result, db_pending,
                   db_handle, db_fb, db_life>>
    /\ UNCHANGED program_vars
    /\ UNCHANGED <<collab_vars, ioctl_vars, pixel_vars, blob_vars, codec_vars>>

\* An upgrade that succeeds whatever became of the device file.
Upgrade_always(live) == TRUE

\* Weak::upgrade: Some exactly while the device file is still open.
Upgrade(live) == live

\* Drop for DumbBuffer starts: munmap, its result ignored.  db_calls now
\* records the calls of the drop.
DropMunmap ==
    /\ db_pc = "held"
    /\ \E ok \in BOOLEAN :
          db_calls' = <<[op |-> "munmap", arg |-> 0, ok |-> ok]>>
    /\ db_pc' = IF Upgrade(db_live) THEN "drop_rmfb" ELSE "dropped"
    /\ db_life' = Append(db_life, Last(db_calls'))
    /\ UNCHANGED <<db_live, db_fail, db_result, db_pending, db_handle, db_fb>>
    /\ UNCHANGED program_vars
    /\ UNCHANGED <<collab_vars, ioctl_vars, pixel_vars, blob_vars, codec_vars>>

\* Drop for DumbBuffer: RMFB, its result ignored.
DropRmfb ==
    /\ db_pc = "drop_rmfb"
    /\ \E ok \in BOOLEAN :
          db_calls' = Append(db_calls, [op |-> "RMFB", arg |-> db_fb, ok |-> ok])
    /\ db_pc' = "drop_destroy"
    /\ db_life' = Append(db_life, Last(db_calls'))
    /\ UNCHANGED <<db_live, db_fail, db_result, db_pending, db_handle, db_fb>>
    /\ UNCHANGED program_vars
    /\ UNCHANGED <<collab_vars, ioctl_vars, pixel_vars, blob_vars, codec_vars>>

\* Drop for DumbBuffer: DESTROY_DUMB, its result ignored.
DropDestroyDumb ==
    /\ db_pc = "drop_destroy"
    /\ \E ok \in BOOLEAN :
          db_calls' = Append(db_calls, [op |-> "DESTROY_DUMB", arg |-> db_handle,
                                       ok |-> ok])
    /\ db_pc' = "dropped"
    /\ db_life' = Append(db_life, Last(db_calls'))
    /\ UNCHANGED <<db_live, db_fail, db_result, db_pending, db_handle, db_fb>>
    /\ UNCHANGED program_vars
    /\ UNCHANGED <<collab_vars, ioctl_vars, pixel_vars, blob_vars, codec_vars>>

NextDumb ==
    \/ CreateDumbBuffer
    \/ CreateStepOk
    \/ CreateStepFails
    \/ CleanupDrop
    \/ CloseCard
    \/ DropMunmap
    \/ DropRmfb
    \/ DropDestroyDumb

(***************************************************************************)
(* DumbBuffer::pixel_idx (src/src/modeset/buffer.rs).                      *)
(***************************************************************************)

\* The largest width, height and coordinate of the model.
MaxDim == 2

\* Bits per pixel: below 8, 8, not a multiple of 8, and 16.
Bpps == {4, 8, 12, 16}

\* pixel_idx with `>` in place of `>=`.
pixel_idx_off_by_one(b, x, y) ==
    IF x > b.width \/ y > b.height
    THEN [some |-> FALSE, idx |-> 0]
    ELSE [some |-> TRUE, idx |-> (y * b.pitch) + (x * (b.bpp \div 8))]

\* pixel_idx: usize arithmetic on values that came from u32 fields.
pixel_idx(b, x, y) ==
    IF x >= b.width \/ y >= b.height
    THEN [some |-> FALSE, idx |-> 0]
    ELSE [some |-> TRUE, idx |-> (y * b.pitch) + (x * (b.bpp \div 8))]

\* A caller asks for the index of (x, y) in a buffer of some geometry.
PixelIdx ==
    /\ px_out.called = FALSE
    /\ \E w \in 0..MaxDim, h \in 0..MaxDim, bpp \in Bpps,
          x \in 0..MaxDim, y \in 0..MaxDim :
       \E pitch \in 0..(MaxDim * 2) :
       \E len \in 0..((pitch * h) + 1) :
          LET b == [width |-> w, height |-> h, bpp |-> bpp, pitch |-> pitch,
                    len |-> len]
          IN  /\ px_in' = [b |-> b, x |-> x, y |-> y]
              /\ px_out' = [called |-> TRUE, ret |-> pixel_idx(b, x, y)]
    /\ UNCHANGED program_vars
    /\ UNCHANGED <<collab_vars, ioctl_vars, dumb_vars, blob_vars, codec_vars>>

NextPixel == PixelIdx

(***************************************************************************)
(* Property blobs: BlobHandle (src/src/modeset/props.rs), the drops list   *)
(* of AtomicRequest (src/src/modeset/atomic.rs), Card::new_property_blob   *)
(* and Card::atomic_commit (src/src/lib.rs).                               *)
(***************************************************************************)

\* The most blobs a caller creates in the model.
MaxBlobs == 2

BlobIds == 1..MaxBlobs

\* A BlobHandle: where it is, and whether its id field is still Some.
\* at: "none" (not created), "held" (owned by the caller), "destroy" (inside
\* destroy(), between destroy_internal and the drop of self), "request"
\* (in the drops list of the AtomicRequest), "gone" (dropped).
\* by: the operation that dropped it; live: whether the device file was open
\* then.
NoHandle == [at |-> "none", id |-> FALSE, by |-> "", live |-> FALSE]

\* destroy_internal leaving the id in place.
TakeId_keeps(h) == h

\* `self.id.take()`
TakeId(h) == [h EXCEPT !.id = FALSE]

\* destroy_internal: with the device file still open and the id not taken
\* yet, the id is taken and one DESTROYPROPBLOB exchange is issued.
\* Returns the handle and whether the exchange is issued.
destroy_internal(h, live) ==
    IF Upgrade(live)
    THEN IF h.id
         THEN [h |-> TakeId(h), exchange |-> TRUE]
         ELSE [h |-> h, exchange |-> FALSE]
    ELSE [h |-> h, exchange |-> FALSE]

\* The blob ids of the handles a drops list holds.
DropsOf(r) == {r.drops[i] : i \in 1..Len(r.drops)}

\* Card::new_property_blob succeeds: the kernel creates a blob and the
\* caller gets its handle.
NewPropertyBlob ==
    /\ bl_live
    /\ \E b \in BlobIds :
          /\ bl_handles[b].at = "none"
          /\ bl_handles' = [bl_handles EXCEPT ![b] =
                               [at |-> "held", id |-> TRUE, by |-> "", live |-> FALSE]]
          /\ bl_kernel' = bl_kernel \cup {b}
    /\ UNCHANGED <<bl_live, bl_req, bl_destroys, bl_reported, bl_commits>>
    /\ UNCHANGED program_vars
    /\ UNCHANGED <<collab_vars, ioctl_vars, dumb_vars, pixel_vars, codec_vars>>

\* The effect of one destroy_internal on handle b: the exchange, if issued,
\* is counted, and the blob leaves the kernel when it succeeds.
DestroyEffect(b, d, ok) ==
    /\ bl_destroys' = IF d.exchange
                      THEN [bl_destroys EXCEPT ![b] = @ + 1]
                      ELSE bl_destroys
    /\ bl_kernel' = IF d.exchange /\ ok THEN bl_kernel \ {b} ELSE bl_kernel

\* BlobHandle::destroy(self), up to the return value of destroy_internal;
\* self is dropped afterwards.
Destroy ==
    /\ \E b \in BlobIds, ok \in BOOLEAN :
          LET d == destroy_internal(bl_handles[b], bl_live)
          IN  /\ bl_handles[b].at = "held"
              /\ bl_handles' = [bl_handles EXCEPT ![b] =
                                   [d.h EXCEPT !.at = "destroy", !.by = "destroy",
                                               !.live = bl_live]]
              /\ DestroyEffect(b, d, ok)
              /\ bl_reported' = IF d.exchange /\ ~ok
                                THEN bl_reported \cup {<<b, bl_live>>}
                                ELSE bl_reported
    /\ UNCHANGED <<bl_live, bl_req, bl_commits>>
    /\ UNCHANGED program_vars
    /\ UNCHANGED <<collab_vars, ioctl_vars, dumb_vars, pixel_vars, codec_vars>>

\* Drop for BlobHandle, of a handle the caller holds or of the self of
\* destroy(): the result of destroy_internal is discarded.
DropHandle ==
    /\ \E b \in BlobIds, ok \in BOOLEAN :
          LET d == destroy_internal(bl_handles[b], bl_live)
          IN  /\ bl_handles[b].at \in {"held", "destroy"}
              /\ bl_handles' = [bl_handles EXCEPT ![b] =
                                   [d.h EXCEPT !.at = "gone",
                                               !.by = IF bl_handles[b].at = "held"
                                                      THEN "drop" ELSE @,
                                               !.live = IF bl_handles[b].at = "held"
                                                        THEN bl_live ELSE @]]
              /\ DestroyEffect(b, d, ok)
    /\ UNCHANGED <<bl_live, bl_req, bl_reported, bl_commits>>
    /\ UNCHANGED program_vars
    /\ UNCHANGED <<collab_vars, ioctl_vars, dumb_vars, pixel_vars, codec_vars>>

\* The handles of `ids` are dropped, one destroy_internal each; the
\* exchanges for the blobs in `failing` fail.
DropAll(ids, failing, by) ==
    /\ bl_handles' = [b \in BlobIds |->
                         IF b \in ids
                         THEN [destroy_internal(bl_handles[b], bl_live).h
                                  EXCEPT !.at = "gone", !.by = by, !.live = bl_live]
                         ELSE bl_handles[b]]
    /\ bl_destroys' = [b \in BlobIds |->
                          IF b \in ids /\ destroy_internal(bl_handles[b], bl_live).exchange
                          THEN bl_destroys[b] + 1 ELSE bl_destroys[b]]
    /\ bl_kernel' = bl_kernel \ {b \in ids \ failing :
                                    destroy_internal(bl_handles[b], bl_live).exchange}

\* AtomicRequest::set_property with a BlobHandle passed by value: the handle
\* is moved into the call; if the request does not keep it, it is dropped
\* when the call ends.
SetPropertyBlob ==
    /\ bl_req.alive
    /\ \E b \in BlobIds, o \in ObjectIds, p \in PropertyIds, ok \in BOOLEAN :
          LET out == set_property(bl_req.r, o, p, [kind |-> "BlobHandle", v |-> b],
                                  build)
              kept == b \in DropsOf(out.req)
          IN  /\ bl_handles[b].at = "held"
              /\ ~out.panic
              /\ bl_req' = [bl_req EXCEPT !.r = out.req]
              /\ IF kept
                 THEN /\ bl_handles' = [bl_handles EXCEPT ![b].at = "request"]
                      /\ UNCHANGED <<bl_destroys, bl_kernel>>
                 ELSE DropAll({b}, IF ok THEN {} ELSE {b}, "set_property")
    /\ UNCHANGED <<bl_live, bl_reported, bl_commits>>
    /\ UNCHANGED program_vars
    /\ UNCHANGED <<collab_vars, ioctl_vars, dumb_vars, pixel_vars, codec_vars>>

\* Card::atomic_commit of the request: the kernel looks up the blobs the
\* property values name.
AtomicCommit ==
    /\ bl_live
    /\ bl_req.alive
    /\ LET ser == for_ioctl_req(bl_req.r)
           named == {ser.prop_values[i] : i \in 1..Len(ser.prop_values)}
       IN  bl_commits' = bl_commits \cup
                            {[blobs |-> named, missing |-> named \ bl_kernel]}
    /\ UNCHANGED <<bl_handles, bl_kernel, bl_live, bl_req, bl_destroys,
                   bl_reported>>
    /\ UNCHANGED program_vars
    /\ UNCHANGED <<collab_vars, ioctl_vars, dumb_vars, pixel_vars, codec_vars>>

\* AtomicRequest::reset: drops.truncate(0) drops the handles it held.
ResetRequest ==
    /\ bl_req.alive
    /\ \E failing \in SUBSET DropsOf(bl_req.r) :
          DropAll(DropsOf(bl_req.r), failing, "reset")
    /\ bl_req' = [bl_req EXCEPT !.r = reset(bl_req.r)]
    /\ UNCHANGED <<bl_live, bl_reported, bl_commits>>
    /\ UNCHANGED program_vars
    /\ UNCHANGED <<collab_vars, ioctl_vars, dumb_vars, pixel_vars, codec_vars>>

\* The AtomicRequest is dropped, and with it its drops list.
DropRequest ==
    /\ bl_req.alive
    /\ \E failing \in SUBSET DropsOf(bl_req.r) :
          DropAll(DropsOf(bl_req.r), failing, "drop_request")
    /\ bl_req' = [bl_req EXCEPT !.alive = FALSE]
    /\ UNCHANGED <<bl_live, bl_reported, bl_commits>>
    /\ UNCHANGED program_vars
    /\ UNCHANGED <<collab_vars, ioctl_vars, dumb_vars, pixel_vars, codec_vars>>

\* The last Arc of the device file is dropped: the kernel frees the blobs
\* of the file.
CloseBlobCard ==
    /\ bl_live
    /\ bl_live' = FALSE
    /\ bl_kernel' = {}
    /\ UNCHANGED <<bl_handles, bl_req, bl_destroys, bl_reported, bl_commits>>
    /\ UNCHANGED program_vars
    /\ UNCHANGED <<collab_vars, ioctl_vars, dumb_vars, pixel_vars, codec_vars>>

NextBlob ==
    \/ NewPropertyBlob
    \/ Destroy
    \/ DropHandle
    \/ SetPropertyBlob
    \/ AtomicCommit
    \/ ResetRequest
    \/ DropRequest
    \/ CloseBlobCard

(***************************************************************************)
(* Event decoding (src/src/event/raw.rs, src/src/event.rs, src/src/lib.rs).*)
(***************************************************************************)

\* The number of bits of a byte of an event buffer.  The program's bytes
\* have 8 bits; the model keeps the layout (little-endian fields of 4 and 8
\* bytes, an 8-byte header) and scales the byte down, so that every field
\* value is a number the checker can hold.
ByteBits == 2

\* The most events one iteration yields in the model.
MaxYield == 3

ByteModulus == 2 ^ ByteBits

Bytes == 0..(ByteModulus - 1)

\* The number of values of usize, a type of 8 bytes.
USIZE_MODULUS == ByteModulus ^ 8

\* isize::MAX, the longest allocation.
ISIZE_MAX == (USIZE_MODULUS \div 2) - 1

\* 0x80000000: the least u32 with its top bit set.
DriverTagMin == (ByteModulus ^ 4) \div 2

\* size_of::<DrmEventHeader>(): typ: u32, len: u32.
HEADER_LEN == 8

DRM_EVENT_VBLANK == 1
DRM_EVENT_FLIP_COMPLETE == 2
DRM_EVENT_CRTC_SEQUENCE == 3

\* size_of::<DrmEventVblank>(): u64, u32, u32, u32, u32.
SizeOfDrmEventVblank == 24

\* size_of::<DrmEventCrtcSequence>(): u64, i64, u64.
SizeOfDrmEventCrtcSequence == 24

\* The value of a little-endian unsigned field.
RECURSIVE from_le(_)
from_le(b) == IF b = <<>> THEN 0 ELSE Head(b) + (ByteModulus * from_le(Tail(b)))

\* The k bytes of a little-endian unsigned field of value n.
RECURSIVE to_le(_, _)
to_le(n, k) ==
    IF k = 0 THEN <<>> ELSE <<n % ByteModulus>> \o to_le(n \div ByteModulus, k - 1)

\* An 8-byte field read as i64.
as_i64(u) == IF u > ISIZE_MAX THEN u - USIZE_MODULUS ELSE u

\* The header at the start of a slice of at least HEADER_LEN bytes.
HeaderOf(buf) ==
    [typ |-> from_le(SubSeq(buf, 1, 4)), len |-> from_le(SubSeq(buf, 5, 8))]

\* usize subtraction: with overflow checks a negative difference panics,
\* without them it wraps.
usize_sub(a, b, bld) ==
    IF a >= b
    THEN [panic |-> FALSE, v |-> a - b]
    ELSE IF bld = "overflow_checks"
    THEN [panic |-> TRUE, v |-> 0]
    ELSE [panic |-> FALSE, v |-> (a - b) % USIZE_MODULUS]

\* DrmEvent::from_event_header: the length of the body of the wide pointer.
from_event_header(hdr, bld) == usize_sub(hdr.len, HEADER_LEN, bld)

NoEvent == [kind |-> "None"]

\* from_bytes without the test of the claimed length against the slice.
from_bytes_unchecked_claim(buf, bld) ==
    IF Len(buf) < HEADER_LEN
    THEN NoEvent
    ELSE LET hdr == HeaderOf(buf)
             body_len == from_event_header(hdr, bld)
         IN  IF body_len.panic
             THEN [kind |-> "panic"]
             ELSE [kind |-> "Some",
                   event |-> [hdr |-> hdr, body_len |-> body_len.v],
                   remain |-> SubSeq(buf, hdr.len + 1, Len(buf))]

\* DrmEvent::from_bytes: the first event of the slice and the rest of the
\* slice, or None.
from_bytes(buf, bld) ==
    IF Len(buf) < HEADER_LEN
    THEN NoEvent
    ELSE LET hdr == HeaderOf(buf)
             claimed_len == hdr.len
             body_len == from_event_header(hdr, bld)
         IN  IF Len(buf) < claimed_len
             THEN NoEvent
             ELSE IF body_len.panic
             THEN [kind |-> "panic"]
             ELSE [kind |-> "Some",
                   event |-> [hdr |-> hdr, body_len |-> body_len.v],
                   remain |-> SubSeq(buf, claimed_len + 1, Len(buf))]

\* From<&raw::DrmEventVblank> for DrmVblankEvent, on the bytes of the body.
DrmVblankEvent_from(body) ==
    [user_data |-> from_le(SubSeq(body, 1, 8)),
     tv_sec |-> from_le(SubSeq(body, 9, 12)),
     tv_usec |-> from_le(SubSeq(body, 13, 16)),
     sequence |-> from_le(SubSeq(body, 17, 20)),
     crtc_id |-> from_le(SubSeq(body, 21, 24))]

\* From<&raw::DrmEventCrtcSequence> for DrmCrtcSequenceEvent.
DrmCrtcSequenceEvent_from(body) ==
    [user_data |-> from_le(SubSeq(body, 1, 8)),
     time_ns |-> as_i64(from_le(SubSeq(body, 9, 16))),
     sequence |-> from_le(SubSeq(body, 17, 24))]

\* raw::DrmEvent::body_as::<T>: the body read as a T unless the length of
\* the wide pointer is below size_of::<T>().
body_as(raw, size) == raw.body_len >= size

\* GenericDrmEvent::try_from_raw.  A raw event is its type tag, the body
\* length of its wide pointer and the bytes that follow its header.
try_from_raw(raw) ==
    CASE raw.typ = DRM_EVENT_VBLANK /\ body_as(raw, SizeOfDrmEventVblank) ->
            [ok |-> TRUE, shape |-> "VBlank", ev |-> DrmVblankEvent_from(raw.body)]
      [] raw.typ = DRM_EVENT_FLIP_COMPLETE /\ body_as(raw, SizeOfDrmEventVblank) ->
            [ok |-> TRUE, shape |-> "FlipComplete",
             ev |-> DrmVblankEvent_from(raw.body)]
      [] raw.typ = DRM_EVENT_CRTC_SEQUENCE
            /\ body_as(raw, SizeOfDrmEventCrtcSequence) ->
            [ok |-> TRUE, shape |-> "CrtcSequence",
             ev |-> DrmCrtcSequenceEvent_from(raw.body)]
      [] OTHER -> [ok |-> FALSE]

\* UnsupportedDrmEvent::from_raw: the tag and a copy of the body; a body
\* longer than isize::MAX cannot be allocated and to_vec panics.
UnsupportedDrmEvent_from_raw(kind, raw) ==
    IF raw.body_len > ISIZE_MAX
    THEN [kind |-> "panic"]
    ELSE [kind |-> kind, typ |-> raw.typ, body |-> raw.body]

\* event::DrmEvent::from_raw
from_raw(raw) ==
    IF raw.typ >= DriverTagMin
    THEN UnsupportedDrmEvent_from_raw("Driver", raw)
    ELSE IF try_from_raw(raw).ok
    THEN [kind |-> "Generic", shape |-> try_from_raw(raw).shape,
          ev |-> try_from_raw(raw).ev]
    ELSE UnsupportedDrmEvent_from_raw("Unsupported", raw)

\* Type tags of the events the device delivers: the three generic ones, a
\* generic one the crate does not know, and a driver-specific one.
Tags == {DRM_EVENT_VBLANK, DRM_EVENT_FLIP_COMPLETE, DRM_EVENT_CRTC_SEQUENCE,
         4, DriverTagMin}

\* Body lengths: none, too short for a known shape, a known shape.
BodyLens == {0, 8, SizeOfDrmEventVblank}

\* A body of n bytes.
Body(n, seed) == [i \in 1..n |-> (seed + i) % ByteModulus]

\* A header claiming `claimed` bytes, followed by a body.
Chunk(typ, claimed, body) == to_le(typ, 4) \o to_le(claimed, 4) \o body

\* Events whose header claims their length.
ValidChunks ==
    {Chunk(t, HEADER_LEN + n, Body(n, seed)) :
        t \in Tags, n \in BodyLens, seed \in {0, 1}}

\* Claimed lengths that are not the length of the event: below the header
\* size, and more than the bytes that follow.
BadLens == {0, 4, 7, 40}

BadChunks ==
    {Chunk(t, c, Body(n, 0)) :
        t \in {DRM_EVENT_VBLANK, DriverTagMin}, c \in BadLens, n \in {0, 8}}

Chunks == ValidChunks \cup BadChunks

\* The bytes one read() returns: up to two events, well-formed or not, and
\* possibly the start of a header after them.
Buffers ==
    {a \o b \o t :
        a \in Chunks \cup {<<>>}, b \in Chunks \cup {<<>>},
        t \in {<<>>, <<1, 0, 0, 0>>}}

\* A raw event as the iterator yields it is its header, the body length of
\* its wide pointer, and the offset of its header in the bytes read.
\* BytesOf: the bytes of the buffer that follow the header of event e, as
\* far as its body length reaches.
BytesOf(e) ==
    SubSeq(ev_buf, e.at + HEADER_LEN + 1,
           Min(e.at + HEADER_LEN + e.body_len, Len(ev_buf)))

\* The body of event e lies in the bytes read.
IsView(e) == e.at + HEADER_LEN + e.body_len <= Len(ev_buf)

\* What the memory after the bytes read holds, in every byte: zeroes, or
\* ones.
Beyond == {0, ByteModulus - 1}

\* Card::read_events: read() fills the caller's buffer and the iterator over
\* its first len bytes is returned.
ReadEvents ==
    /\ ev_pc = "idle"
    /\ \E buf \in Buffers :
          /\ ev_buf' = buf
          /\ ev_remain' = buf
    /\ ev_pc' = "iterating"
    /\ UNCHANGED <<ev_yielded, ev_decoded>>
    /\ UNCHANGED program_vars
    /\ UNCHANGED <<collab_vars, ioctl_vars, dumb_vars, pixel_vars, blob_vars>>
    /\ UNCHANGED <<flags_vars, error_vars, value_vars>>

\* Card::read_events: read() fails and the error is returned.
ReadFails ==
    /\ ev_pc = "idle"
    /\ ev_pc' = "failed"
    /\ UNCHANGED <<ev_buf, ev_remain, ev_yielded, ev_decoded>>
    /\ UNCHANGED program_vars
    /\ UNCHANGED <<collab_vars, ioctl_vars, dumb_vars, pixel_vars, blob_vars>>
    /\ UNCHANGED <<flags_vars, error_vars, value_vars>>

\* DrmEventsFromBytes::next
IterNext ==
    /\ ev_pc = "iterating"
    /\ Len(ev_yielded) < MaxYield
    /\ LET r == from_bytes(ev_remain, build)
       IN  CASE r.kind = "None" ->
                  /\ ev_pc' = "ended"
                  /\ UNCHANGED <<ev_remain, ev_yielded>>
             [] r.kind = "panic" ->
                  /\ ev_pc' = "panicked"
                  /\ UNCHANGED <<ev_remain, ev_yielded>>
             [] OTHER ->
                  /\ ev_pc' = "yielded"
                  /\ ev_remain' = r.remain
                  /\ ev_yielded' =
                        Append(ev_yielded,
                               [hdr |-> r.event.hdr,
                                body_len |-> r.event.body_len,
                                at |-> Len(ev_buf) - Len(ev_remain)])
    /\ UNCHANGED <<ev_buf, ev_decoded>>
    /\ UNCHANGED program_vars
    /\ UNCHANGED <<collab_vars, ioctl_vars, dumb_vars, pixel_vars, blob_vars>>
    /\ UNCHANGED <<flags_vars, error_vars, value_vars>>

\* The closure of Card::read_events: DrmEvent::from_raw of the event just
\* yielded.  A body that reaches past the bytes read is read from whatever
\* memory follows them.
FromRaw ==
    /\ ev_pc = "yielded"
    /\ LET e == ev_yielded[Len(ev_yielded)]
       IN  \E fill \in (IF IsView(e) THEN {0} ELSE Beyond) :
              LET d == from_raw([typ |-> e.hdr.typ,
                                 body_len |-> e.body_len,
                                 body |-> BytesOf(e)
                                    \o [i \in 1..(IF IsView(e) THEN 0
                                                  ELSE SizeOfDrmEventVblank)
                                          |-> fill]])
              IN  IF d.kind = "panic"
                  THEN /\ ev_pc' = "panicked"
                       /\ UNCHANGED ev_decoded
                  ELSE /\ ev_pc' = "iterating"
                       /\ ev_decoded' = Append(ev_decoded, d)
    /\ UNCHANGED <<ev_buf, ev_remain, ev_yielded>>
    /\ UNCHANGED program_vars
    /\ UNCHANGED <<collab_vars, ioctl_vars, dumb_vars, pixel_vars, blob_vars>>
    /\ UNCHANGED <<flags_vars, error_vars, value_vars>>

NextEvents ==
    \/ ReadEvents
    \/ ReadFails
    \/ IterNext
    \/ FromRaw

(***************************************************************************)
(* Conversions between Error and raw error codes (src/src/result.rs).      *)
(***************************************************************************)

\* Raw error codes, by name: those of errno-base.h, and EOPNOTSUPP.
RawErrors ==
    {"EPERM", "ENOENT", "ESRCH", "EINTR", "EIO", "ENXIO", "E2BIG", "ENOEXEC",
     "EBADF", "ECHILD", "EAGAIN", "ENOMEM", "EACCES", "EFAULT", "ENOTBLK",
     "EBUSY", "EEXIST", "EXDEV", "ENODEV", "ENOTDIR", "EISDIR", "EINVAL",
     "ENFILE", "EMFILE", "ENOTTY", "ETXTBSY", "EFBIG", "ENOSPC", "ESPIPE",
     "EROFS", "EMLINK", "EPIPE", "EDOM", "ERANGE", "EOPNOTSUPP"}

\* The named categories of Error.
NamedErrors == {"Invalid", "NonExist", "SystemMem", "GraphicsMem", "Permission",
                "Disconnected", "NotSupported", "RemoteFailure", "Died"}

\* Error::Other(c)
Other(c) == "Other(" \o c \o ")"

\* Every value of Error.
Errors == NamedErrors \cup {Other(c) : c \in RawErrors}

\* impl Into<linux_io::result::Error> for Error
Error_into(e) ==
    CASE e = "Invalid" -> "EINVAL"
      [] e = "NonExist" -> "ENOENT"
      [] e = "SystemMem" -> "ENOMEM"
      [] e = "GraphicsMem" -> "ENOSPC"
      [] e = "Permission" -> "EPERM"
      [] e = "Disconnected" -> "ENODEV"
      [] e = "NotSupported" -> "EOPNOTSUPP"
      [] e = "RemoteFailure" -> "ENXIO"
      [] e = "Died" -> "EIO"
      [] OTHER -> CHOOSE c \in RawErrors : e = Other(c)

\* Nothing has been converted.
NotConverted == [steps |-> 0, there |-> "", back |-> ""]

\* Error::into: an Error is converted to its raw code, or the Error made
\* from a raw code is converted back.
ErrorInto ==
    /\ \/ /\ er_out.steps = 0
          /\ \E e \in Errors :
                /\ er_in' = [from |-> "Error", v |-> e]
                /\ er_out' = [steps |-> 1, there |-> Error_into(e), back |-> ""]
       \/ /\ er_out.steps = 1
          /\ er_in.from = "raw"
          /\ er_out' = [er_out EXCEPT !.steps = 2,
                                      !.back = Error_into(er_out.there)]
          /\ UNCHANGED er_in
    /\ UNCHANGED program_vars
    /\ UNCHANGED <<collab_vars, ioctl_vars, dumb_vars, pixel_vars, blob_vars>>
    /\ UNCHANGED <<flags_vars, event_vars, value_vars>>

\* Error::from: a raw code is converted to an Error, or the raw code made
\* from an Error is converted back.
ErrorFrom ==
    /\ \/ /\ er_out.steps = 0
          /\ \E c \in RawErrors :
                /\ er_in' = [from |-> "raw", v |-> c]
                /\ er_out' = [steps |-> 1, there |-> Error_from(c), back |-> ""]
       \/ /\ er_out.steps = 1
          /\ er_in.from = "Error"
          /\ er_out' = [er_out EXCEPT !.steps = 2,
                                      !.back = Error_from(er_out.there)]
          /\ UNCHANGED er_in
    /\ UNCHANGED program_vars
    /\ UNCHANGED <<collab_vars, ioctl_vars, dumb_vars, pixel_vars, blob_vars>>
    /\ UNCHANGED <<flags_vars, event_vars, value_vars>>

NextErrors == ErrorInto \/ ErrorFrom

(***************************************************************************)
(* ModeInfo and the kernel's mode record (src/src/modeset.rs).             *)
(***************************************************************************)

\* Length of DrmModeInfo::name, 32 in the program, scaled down.
ModeNameCap == 3

\* Bytes of a name field: the terminator, a letter, a byte above 127.
ModeNameBytes == {0, 65, 200}

\* The fourteen timing fields of a record, in declaration order: all zero,
\* all different, all at the top of a u16.
ModeTimings == {[i \in 1..14 |-> 0], [i \in 1..14 |-> i],
                [i \in 1..14 |-> 65535]}

\* struct DrmModeInfo / struct ModeInfo: the timing fields and the name.
ModeRecord(t, name) ==
    [clock |-> t[1], hdisplay |-> t[2], hsync_start |-> t[3],
     hsync_end |-> t[4], htotal |-> t[5], hskew |-> t[6], vdisplay |-> t[7],
     vsync_start |-> t[8], vsync_end |-> t[9], vtotal |-> t[10],
     vscan |-> t[11], vrefresh |-> t[12], flags |-> t[13], typ |-> t[14],
     name |-> name]

\* Every kernel mode record: the name field is a full array of bytes.
DrmModeInfos ==
    {ModeRecord(t, name) : t \in ModeTimings,
                           name \in [1..ModeNameCap -> ModeNameBytes]}

\* No record.
NoMode == [made |-> FALSE]

\* value.name[..].split(|c| *c == 0).next().unwrap()
first_split(name) ==
    LET stops == {i \in 1..Len(name) : name[i] = 0}
        end == IF stops = {} THEN Len(name)
               ELSE (CHOOSE i \in stops : \A j \in stops : i <= j) - 1
    IN SubSeq(name, 1, end)

\* impl From<DrmModeInfo> for ModeInfo
ModeInfo_from(value) == [value EXCEPT !.name = first_split(value.name)]

\* impl From<&ModeInfo> for DrmModeInfo
DrmModeInfo_from(value) ==
    LET name_len == Min(ModeNameCap - 1, Len(value.name))
        name_raw == [i \in 1..ModeNameCap |->
                        IF i <= name_len THEN value.name[i] ELSE 0]
    IN [value EXCEPT !.name = name_raw]

\* ModeInfo::from(r) for a kernel mode record r.
ModeFrom ==
    /\ ~mi_raw.made
    /\ \E r \in DrmModeInfos :
          /\ mi_raw' = [made |-> TRUE, v |-> r]
          /\ mi_info' = [made |-> TRUE, v |-> ModeInfo_from(r)]
    /\ UNCHANGED mi_back
    /\ UNCHANGED program_vars
    /\ UNCHANGED <<collab_vars, ioctl_vars, dumb_vars, pixel_vars, blob_vars>>
    /\ UNCHANGED <<flags_vars, event_vars, error_vars, open_vars, commit_vars,
                   order_vars, teardown_vars, each_vars, name_vars>>

\* DrmModeInfo::from(&info) for the ModeInfo made.
ModeInto ==
    /\ mi_info.made
    /\ ~mi_back.made
    /\ mi_back' = [made |-> TRUE, v |-> DrmModeInfo_from(mi_info.v)]
    /\ UNCHANGED <<mi_raw, mi_info>>
    /\ UNCHANGED program_vars
    /\ UNCHANGED <<collab_vars, ioctl_vars, dumb_vars, pixel_vars, blob_vars>>
    /\ UNCHANGED <<flags_vars, event_vars, error_vars, open_vars, commit_vars,
                   order_vars, teardown_vars, each_vars, name_vars>>

NextMode == ModeFrom \/ ModeInto

(***************************************************************************)
(* Card::from_file (src/src/lib.rs) and InitError (src/src/result.rs).     *)
(***************************************************************************)

\* Outcomes of the VERSION exchange: success, or any raw error code.
VersionOutcomes == {"Ok"} \cup RawErrors

\* from_file has not returned.
NotOpened == [ok |-> FALSE, err |-> "none"]

\* A conversion that never recognises ENOTTY.
InitError_from_always_other(value) == Other(value)

\* impl From<linux_io::result::Error> for InitError
InitError_from(value) ==
    IF value = "ENOTTY" THEN "NotDrmCard" ELSE Other(value)

\* impl Into<linux_io::result::Error> for InitError
InitError_into(e) ==
    IF e = "NotDrmCard" THEN "ENOTTY"
    ELSE CHOOSE c \in RawErrors : e = Other(c)

\* Card::from_file up to its call of drm_ioctl: the file is wrapped and the
\* VERSION request is made with a zeroed DrmVersion.
FromFile ==
    /\ cf_pc = "idle"
    /\ cf_pc' = "probe"
    /\ io_pc = "idle"
    /\ io_req' = <<"VERSION", 0>>
    /\ io_pc' = "loop"
    /\ io_issued' = <<>>
    /\ io_outcomes' = <<>>
    /\ io_ret' = "none"
    /\ UNCHANGED <<cf_ret, cf_raw>>
    /\ UNCHANGED program_vars
    /\ UNCHANGED <<collab_vars, dumb_vars, pixel_vars, blob_vars>>
    /\ UNCHANGED <<flags_vars, event_vars, error_vars, mode_vars, commit_vars,
                   order_vars, teardown_vars, each_vars, name_vars>>

\* One turn of the loop of drm_ioctl for the VERSION request.
VersionExchange ==
    /\ cf_pc = "probe"
    /\ drm_ioctl_loop_from(VersionOutcomes)

\* `ret.ioctl(ioctl::DRM_IOCTL_VERSION, &mut v)?; Ok(ret)`
FromFileReturn ==
    /\ cf_pc = "probe"
    /\ io_pc = "returned"
    /\ cf_pc' = "returned"
    /\ cf_ret' = IF io_ret = "Ok"
                 THEN [ok |-> TRUE, err |-> "none"]
                 ELSE [ok |-> FALSE, err |-> InitError_from(io_ret)]
    /\ UNCHANGED cf_raw
    /\ UNCHANGED program_vars
    /\ UNCHANGED <<collab_vars, ioctl_vars, dumb_vars, pixel_vars, blob_vars>>
    /\ UNCHANGED <<flags_vars, event_vars, error_vars, mode_vars, commit_vars,
                   order_vars, teardown_vars, each_vars, name_vars>>

\* InitError::into of the error from_file returned.
InitErrorInto ==
    /\ cf_pc = "returned"
    /\ ~cf_ret.ok
    /\ cf_raw = "none"
    /\ cf_raw' = InitError_into(cf_ret.err)
    /\ UNCHANGED <<cf_pc, cf_ret>>
    /\ UNCHANGED program_vars
    /\ UNCHANGED <<collab_vars, ioctl_vars, dumb_vars, pixel_vars, blob_vars>>
    /\ UNCHANGED <<flags_vars, event_vars, error_vars, mode_vars, commit_vars,
                   order_vars, teardown_vars, each_vars, name_vars>>

NextOpen == FromFile \/ VersionExchange \/ FromFileReturn \/ InitErrorInto

(***************************************************************************)
(* Card::atomic_commit (src/src/lib.rs) of a request built beforehand.     *)
(***************************************************************************)

\* The most properties of a request that is committed in the model.
MaxCommitted == 2

\* AtomicCommitFlags values and user_data values a caller passes.
CommitFlags == {"NONE", "TEST_ONLY"}

UserData == {0, 1}

\* Outcomes of the MODE_ATOMIC exchange.
CommitOutcomes == {"Ok", "EINTR", "ENOENT"}

\* No call.
NoCommit == [made |-> FALSE]

\* atomic_commit as it would be if it emptied the request it serialized.
atomic_commit_resets(r, flags, user_data) ==
    [req |-> reset(r),
     tmp |-> [count_objs |-> AsU32(Len(for_ioctl_req(r).obj_ids)),
              parts |-> for_ioctl_req(r),
              flags |-> flags, user_data |-> user_data]]

\* atomic_commit up to its exchange: the request is borrowed shared and
\* serialized into new arrays, which DrmModeAtomic points to.  Gives the
\* request as the call leaves it and the argument of the exchange.
atomic_commit(r, flags, user_data) ==
    [req |-> r,
     tmp |-> [count_objs |-> AsU32(Len(for_ioctl_req(r).obj_ids)),
              parts |-> for_ioctl_req(r),
              flags |-> flags, user_data |-> user_data]]

\* The caller builds the request: set_property and reset, before the first
\* atomic_commit.
CommitBuild ==
    /\ ac_pc = "idle"
    /\ ~ac_last.made
    /\ \/ Stored(req) < MaxCommitted /\ SetProperty
       \/ Reset

\* Card::atomic_commit is called, at most twice here, and calls drm_ioctl.
AtomicCommitCall ==
    /\ ac_pc = "idle"
    /\ ~panicked
    /\ ~ac_prev.made
    /\ io_pc \in {"idle", "returned"}
    /\ \E flags \in CommitFlags, user_data \in UserData :
          LET out == atomic_commit(req, flags, user_data)
          IN  /\ req' = out.req
              /\ io_req' = <<"MODE_ATOMIC", out.tmp>>
              /\ ac_last' = [made |-> TRUE, before |-> req, tmp |-> out.tmp,
                             ret |-> "none"]
    /\ ac_prev' = IF ac_last.made
                  THEN [made |-> TRUE, req |-> ac_last.before,
                        parts |-> ac_last.tmp.parts]
                  ELSE ac_prev
    /\ ac_pc' = "exchange"
    /\ io_pc' = "loop"
    /\ io_issued' = <<>>
    /\ io_outcomes' = <<>>
    /\ io_ret' = "none"
    /\ UNCHANGED <<build, panicked, aborted, log, touched, was_reset>>
    /\ UNCHANGED <<replay_vars, reader_vars>>
    /\ UNCHANGED <<collab_vars, dumb_vars, pixel_vars, blob_vars>>
    /\ UNCHANGED <<flags_vars, event_vars, error_vars, mode_vars, open_vars,
                   order_vars, teardown_vars, each_vars, name_vars>>

\* One turn of the loop of drm_ioctl for the MODE_ATOMIC request.
CommitExchange ==
    /\ ac_pc = "exchange"
    /\ drm_ioctl_loop_from(CommitOutcomes)

\* `self.ioctl(ioctl::DRM_IOCTL_MODE_ATOMIC, &mut tmp)?; Ok(())`
AtomicCommitReturn ==
    /\ ac_pc = "exchange"
    /\ io_pc = "returned"
    /\ ac_pc' = "idle"
    /\ ac_last' = [ac_last EXCEPT !.ret = IF io_ret = "Ok" THEN "Ok"
                                          ELSE Error_from(io_ret)]
    /\ UNCHANGED ac_prev
    /\ UNCHANGED program_vars
    /\ UNCHANGED <<collab_vars, ioctl_vars, dumb_vars, pixel_vars, blob_vars>>
    /\ UNCHANGED <<flags_vars, event_vars, error_vars, mode_vars, open_vars,
                   order_vars, teardown_vars, each_vars, name_vars>>

NextCommit ==
    \/ CommitBuild
    \/ AtomicCommitCall
    \/ CommitExchange
    \/ AtomicCommitReturn

(***************************************************************************)
(* Two requests built from interleavings of the same per-object call       *)
(* sequences (src/src/modeset/atomic.rs).                                  *)
(***************************************************************************)

\* The set_property calls of the two sequences.
OrderInputs == ObjectIds \X PropertyIds \X {[kind |-> "u64", v |-> 7]}

\* The raw ids the calls of a sequence name.
RawIdsOf(S) == {S[i][1][2] : i \in 1..Len(S)}

\* The (property, value) pairs a sequence sets on raw object id o, in order.
PairsFor(S, o) ==
    LET calls == SelectSeq(S, LAMBDA c : c[1][2] = o)
    IN  [i \in 1..Len(calls) |-> <<calls[i][2], calls[i][3].v>>]

\* T makes the calls of S in another order.
Reordering(S, T) ==
    /\ Len(T) = Len(S)
    /\ \E f \in [1..Len(S) -> 1..Len(S)] :
          /\ \A i, j \in 1..Len(S) : f[i] = f[j] => i = j
          /\ \A i \in 1..Len(S) : T[i] = S[f[i]]

\* T is an interleaving of the per-object subsequences of S.
Interleaving(S, T) ==
    /\ Reordering(S, T)
    /\ \A o \in RawIdsOf(S) : PairsFor(T, o) = PairsFor(S, o)

\* Two callers are given their call sequences: as many calls as return.
OrderStart ==
    /\ il_s = <<>>
    /\ \E n \in 1..U32_MAX : \E S \in [1..n -> OrderInputs] :
          \E f \in [1..n -> 1..n] :
             LET T == [i \in 1..n |-> S[f[i]]]
             IN  /\ \A i, j \in 1..n : f[i] = f[j] => i = j
                 /\ \A o \in RawIdsOf(S) : PairsFor(T, o) = PairsFor(S, o)
                 /\ il_s' = S
                 /\ il_t' = T
    /\ UNCHANGED <<il_a, il_b, il_i>>
    /\ UNCHANGED program_vars
    /\ UNCHANGED <<collab_vars, ioctl_vars, dumb_vars, pixel_vars, blob_vars>>
    /\ UNCHANGED <<flags_vars, event_vars, error_vars>>
    /\ UNCHANGED <<mode_vars, open_vars, commit_vars, teardown_vars, each_vars,
                   name_vars>>

\* The next set_property call of S on request A.
OrderSetA ==
    /\ il_i < Len(il_s)
    /\ LET c == il_s[il_i + 1]
       IN  il_a' = set_property(il_a, c[1], c[2], c[3], build).req
    /\ il_i' = il_i + 1
    /\ UNCHANGED <<il_s, il_t, il_b>>
    /\ UNCHANGED program_vars
    /\ UNCHANGED <<collab_vars, ioctl_vars, dumb_vars, pixel_vars, blob_vars>>
    /\ UNCHANGED <<flags_vars, event_vars, error_vars>>
    /\ UNCHANGED <<mode_vars, open_vars, commit_vars, teardown_vars, each_vars,
                   name_vars>>

\* The next set_property call of T on request B.
OrderSetB ==
    /\ il_i >= Len(il_s)
    /\ il_i < Len(il_s) + Len(il_t)
    /\ LET c == il_t[il_i - Len(il_s) + 1]
       IN  il_b' = set_property(il_b, c[1], c[2], c[3], build).req
    /\ il_i' = il_i + 1
    /\ UNCHANGED <<il_s, il_t, il_a>>
    /\ UNCHANGED program_vars
    /\ UNCHANGED <<collab_vars, ioctl_vars, dumb_vars, pixel_vars, blob_vars>>
    /\ UNCHANGED <<flags_vars, event_vars, error_vars>>
    /\ UNCHANGED <<mode_vars, open_vars, commit_vars, teardown_vars, each_vars,
                   name_vars>>

NextOrder == OrderStart \/ OrderSetA \/ OrderSetB

(***************************************************************************)
(* Teardown against Card::close and Card::take_file: the Arc of the device *)
(* file (src/src/lib.rs), Drop for DumbBuffer (src/src/modeset/buffer.rs)  *)
(* and BlobHandle::destroy_internal (src/src/modeset/props.rs), each step  *)
(* of which may run between the steps of the others.                       *)
(***************************************************************************)

\* The objects that hold a Weak of the device file: one DumbBuffer and one
\* BlobHandle.
Owners == {"DumbBuffer", "BlobHandle"}

\* The exchanges the teardown of an object issues, in order.
TeardownCalls(o) ==
    IF o = "DumbBuffer" THEN <<"RMFB", "DESTROY_DUMB">>
    ELSE <<"DESTROYPROPBLOB">>

\* Neither close nor take_file has been called.
NotClosed == [op |-> "none", ret |-> "none", during |-> {}]

\* An into_inner that hands out the file whatever the strong count.
into_inner_unchecked(strong) == [strong |-> strong - 1, some |-> TRUE]

\* Arc::into_inner: the strong count is decremented, and the file is handed
\* out exactly when this was the last strong reference.
into_inner(strong) == [strong |-> strong - 1, some |-> strong = 1]

\* The teardowns that hold an upgraded reference.
Holding == {o \in Owners : td_obj[o].pc \in {"exchange1", "exchange2", "release"}}

\* Card::take_file: `Arc::into_inner(self.f).ok_or(EBUSY)`; Card::close
\* closes the file it gets.  The Card is consumed either way.
CardCloseOrTake ==
    /\ td_ret.op = "none"
    /\ \E op \in {"close", "take_file"}, close_ok \in BOOLEAN :
          LET got == into_inner(td_strong)
          IN  /\ td_strong' = got.strong
              /\ td_file' = IF ~got.some THEN td_file
                            ELSE IF op = "close" THEN "closed" ELSE "caller"
              /\ td_ret' = [op |-> op,
                            ret |-> IF ~got.some THEN "EBUSY"
                                    ELSE IF op = "close" /\ ~close_ok THEN "EIO"
                                    ELSE "Ok",
                            during |-> Holding]
    /\ UNCHANGED <<td_obj, td_calls>>
    /\ UNCHANGED program_vars
    /\ UNCHANGED <<collab_vars, ioctl_vars, dumb_vars, pixel_vars, blob_vars>>
    /\ UNCHANGED <<flags_vars, event_vars, error_vars>>
    /\ UNCHANGED <<mode_vars, open_vars, commit_vars, order_vars, each_vars,
                   name_vars>>

\* The caller of take_file closes the file it was given.
TakenFileClose ==
    /\ td_file = "caller"
    /\ td_file' = "closed"
    /\ UNCHANGED <<td_strong, td_ret, td_obj, td_calls>>
    /\ UNCHANGED program_vars
    /\ UNCHANGED <<collab_vars, ioctl_vars, dumb_vars, pixel_vars, blob_vars>>
    /\ UNCHANGED <<flags_vars, event_vars, error_vars>>
    /\ UNCHANGED <<mode_vars, open_vars, commit_vars, order_vars, each_vars,
                   name_vars>>

\* The teardown of an object starts: `self.file.upgrade()` (after munmap,
\* for a DumbBuffer).  Without a reference it returns at once.
TeardownUpgrade ==
    /\ \E o \in Owners :
          /\ td_obj[o].pc = "alive"
          /\ IF Upgrade(td_strong > 0)
             THEN /\ td_strong' = td_strong + 1
                  /\ td_obj' = [td_obj EXCEPT ![o] = [pc |-> "exchange1", found |-> TRUE]]
             ELSE /\ td_strong' = td_strong
                  /\ td_obj' = [td_obj EXCEPT ![o] = [pc |-> "done", found |-> FALSE]]
    /\ UNCHANGED <<td_file, td_ret, td_calls>>
    /\ UNCHANGED program_vars
    /\ UNCHANGED <<collab_vars, ioctl_vars, dumb_vars, pixel_vars, blob_vars>>
    /\ UNCHANGED <<flags_vars, event_vars, error_vars>>
    /\ UNCHANGED <<mode_vars, open_vars, commit_vars, order_vars, each_vars,
                   name_vars>>

\* One exchange of a teardown, through the reference it holds; its outcome
\* does not change what follows.
TeardownExchange ==
    /\ \E o \in Owners, ok \in BOOLEAN :
          LET n == IF td_obj[o].pc = "exchange1" THEN 1 ELSE 2
          IN  /\ td_obj[o].pc \in {"exchange1", "exchange2"}
              /\ td_calls' = Append(td_calls, [by |-> o, op |-> TeardownCalls(o)[n],
                                               file |-> td_file, ok |-> ok])
              /\ td_obj' = [td_obj EXCEPT ![o].pc =
                                IF n < Len(TeardownCalls(o)) THEN "exchange2"
                                ELSE "release"]
    /\ UNCHANGED <<td_strong, td_file, td_ret>>
    /\ UNCHANGED program_vars
    /\ UNCHANGED <<collab_vars, ioctl_vars, dumb_vars, pixel_vars, blob_vars>>
    /\ UNCHANGED <<flags_vars, event_vars, error_vars>>
    /\ UNCHANGED <<mode_vars, open_vars, commit_vars, order_vars, each_vars,
                   name_vars>>

\* The teardown ends: its reference is dropped, and the file with it if it
\* was the last one.
TeardownRelease ==
    /\ \E o \in Owners :
          /\ td_obj[o].pc = "release"
          /\ td_obj' = [td_obj EXCEPT ![o].pc = "done"]
    /\ td_strong' = td_strong - 1
    /\ td_file' = IF td_strong = 1 /\ td_file = "arc" THEN "closed" ELSE td_file
    /\ UNCHANGED <<td_ret, td_calls>>
    /\ UNCHANGED program_vars
    /\ UNCHANGED <<collab_vars, ioctl_vars, dumb_vars, pixel_vars, blob_vars>>
    /\ UNCHANGED <<flags_vars, event_vars, error_vars>>
    /\ UNCHANGED <<mode_vars, open_vars, commit_vars, order_vars, each_vars,
                   name_vars>>

NextTeardown ==
    \/ CardCloseOrTake
    \/ TakenFileClose
    \/ TeardownUpgrade
    \/ TeardownExchange
    \/ TeardownRelease

(***************************************************************************)
(* The property loop of Card::each_object_property_meta (src/src/lib.rs),  *)
(* over validated lists of more than one property.                         *)
(***************************************************************************)

\* The most properties of a validated list in the model.
MaxProps == 2

\* The property values the kernel reports.
MetaValues == {7, 9}

\* zip pairing each id with the value at the mirrored position.
zip_mirrored(prop_ids, prop_values) ==
    [i \in 1..Min(Len(prop_ids), Len(prop_values)) |->
        <<prop_ids[i], prop_values[Len(prop_values) + 1 - i]>>]

\* `zip(prop_ids, prop_values)`
zip(prop_ids, prop_values) ==
    [i \in 1..Min(Len(prop_ids), Len(prop_values)) |->
        <<prop_ids[i], prop_values[i]>>]

\* each_object_property_meta up to its property loop: the probe reports no
\* property and Ok(()) is returned, or the loop of probe and content calls
\* ends with lists of equal lengths, which may be empty.
EachValidated ==
    /\ pm_pc = "idle"
    /\ \E n \in 0..MaxProps :
       \E ids \in [1..n -> PropertyIds], values \in [1..n -> MetaValues] :
          /\ pm_ids' = ids
          /\ pm_values' = values
          /\ pm_pc' = IF n = 0 THEN "done" ELSE "loop"
          /\ pm_ret' = IF n = 0 THEN "Ok" ELSE pm_ret
    /\ UNCHANGED <<pm_i, pm_cb, pm_ascii>>
    /\ UNCHANGED program_vars
    /\ UNCHANGED <<collab_vars, ioctl_vars, dumb_vars, pixel_vars, blob_vars>>
    /\ UNCHANGED <<flags_vars, event_vars, error_vars>>
    /\ UNCHANGED <<mode_vars, open_vars, commit_vars, order_vars, teardown_vars,
                   name_vars>>

\* One turn of the property loop: GETPROPERTY is answered with a name, and
\* the callback gets the property and its value unless the name is not
\* ASCII; after the last property Ok(()) is returned.
EachProperty ==
    /\ pm_pc = "loop"
    /\ \E name \in Names :
          /\ pm_ascii' = Append(pm_ascii, is_ascii(name))
          /\ pm_cb' = IF is_ascii(name)
                      THEN Append(pm_cb, zip(pm_ids, pm_values)[pm_i])
                      ELSE pm_cb
    /\ pm_i' = pm_i + 1
    /\ IF pm_i = Len(zip(pm_ids, pm_values))
       THEN pm_pc' = "done" /\ pm_ret' = "Ok"
       ELSE pm_pc' = "loop" /\ pm_ret' = pm_ret
    /\ UNCHANGED <<pm_ids, pm_values>>
    /\ UNCHANGED program_vars
    /\ UNCHANGED <<collab_vars, ioctl_vars, dumb_vars, pixel_vars, blob_vars>>
    /\ UNCHANGED <<flags_vars, event_vars, error_vars>>
    /\ UNCHANGED <<mode_vars, open_vars, commit_vars, order_vars, teardown_vars,
                   name_vars>>

\* The GETPROPERTY exchange of a turn fails: `?` returns the error.
EachPropertyFails ==
    /\ pm_pc = "loop"
    /\ \E e \in Errnos \ {"EINTR"} : pm_ret' = Error_from(e)
    /\ pm_pc' = "done"
    /\ UNCHANGED <<pm_ids, pm_values, pm_i, pm_cb, pm_ascii>>
    /\ UNCHANGED program_vars
    /\ UNCHANGED <<collab_vars, ioctl_vars, dumb_vars, pixel_vars, blob_vars>>
    /\ UNCHANGED <<flags_vars, event_vars, error_vars>>
    /\ UNCHANGED <<mode_vars, open_vars, commit_vars, order_vars, teardown_vars,
                   name_vars>>

NextEach == EachValidated \/ EachProperty \/ EachPropertyFails

(***************************************************************************)
(* Card::read_driver_name and Card::driver_name (src/src/lib.rs), with     *)
(* DrmVersion::set_name_ptr and name_len (src/src/ioctl.rs).               *)
(***************************************************************************)

\* The longest name, and the longest buffer of a caller, in the model.
MaxNameLen == 4

NameLens == 0..MaxNameLen

\* Nothing returned.
NoNameRet == [kind |-> "none", len |-> 0, err |-> ""]

\* `&mut into[..n]` on a slice of `len` elements: a panic when n is out of
\* range.
slice_to(len, n) ==
    IF n > len THEN [kind |-> "panic", len |-> 0, err |-> ""]
    ELSE [kind |-> "Ok", len |-> n, err |-> ""]

\* The outcomes of `ret.set_len(n)` on a vector of capacity `cap`: the length
\* becomes n; beyond the capacity that is undefined behaviour, which a build
\* that checks the precondition turns into an abort.
vec_set_len(cap, n) ==
    IF n > cap
    THEN {[kind |-> "Ok", len |-> n, err |-> ""],
          [kind |-> "abort", len |-> 0, err |-> ""]}
    ELSE {[kind |-> "Ok", len |-> n, err |-> ""]}

\* read_driver_name(into): the one VERSION exchange is made with the
\* caller's buffer, and the slice up to the reported length is returned.
ReadDriverName ==
    /\ dn_pc = "idle"
    /\ \E buflen \in NameLens, out \in (Outcomes \ {"EINTR"}), reported \in NameLens :
          /\ dn_cap' = buflen
          /\ dn_asked' = buflen
          /\ IF out = "Ok"
             THEN /\ dn_reply' = reported
                  /\ dn_ret' = slice_to(buflen, reported)
             ELSE /\ dn_reply' = dn_reply
                  /\ dn_ret' = [kind |-> "Err", len |-> 0, err |-> Error_from(out)]
    /\ dn_op' = "read_driver_name"
    /\ dn_pc' = "done"
    /\ UNCHANGED program_vars
    /\ UNCHANGED <<collab_vars, ioctl_vars, dumb_vars, pixel_vars, blob_vars>>
    /\ UNCHANGED <<flags_vars, event_vars, error_vars>>
    /\ UNCHANGED <<mode_vars, open_vars, commit_vars, order_vars, teardown_vars,
                   each_vars>>

\* driver_name up to its content call: the size probe is answered and the
\* vector is reserved; try_reserve_exact may reserve more than asked.
DriverNameProbe ==
    /\ dn_pc = "idle"
    /\ dn_op' = "driver_name"
    /\ \E out \in (Outcomes \ {"EINTR"}), len \in NameLens, ok \in BOOLEAN,
          spare \in {0, 1} :
          IF out # "Ok"
          THEN /\ dn_ret' = [kind |-> "Err", len |-> 0, err |-> Error_from(out)]
               /\ dn_pc' = "done"
               /\ UNCHANGED <<dn_cap, dn_asked>>
          ELSE IF ~ok /\ len > 0
          THEN /\ dn_ret' = [kind |-> "Err", len |-> 0,
                             err |-> Error_from_TryReserveError]
               /\ dn_pc' = "done"
               /\ UNCHANGED <<dn_cap, dn_asked>>
          ELSE /\ dn_cap' = IF len = 0 THEN 0 ELSE len + spare
               /\ dn_asked' = len
               /\ dn_pc' = "content"
               /\ dn_ret' = dn_ret
    /\ UNCHANGED dn_reply
    /\ UNCHANGED program_vars
    /\ UNCHANGED <<collab_vars, ioctl_vars, dumb_vars, pixel_vars, blob_vars>>
    /\ UNCHANGED <<flags_vars, event_vars, error_vars>>
    /\ UNCHANGED <<mode_vars, open_vars, commit_vars, order_vars, teardown_vars,
                   each_vars>>

\* driver_name: the content call is answered and the vector is given the
\* reported length.
DriverNameContent ==
    /\ dn_pc = "content"
    /\ \E out \in (Outcomes \ {"EINTR"}), reported \in NameLens :
          IF out = "Ok"
          THEN /\ dn_reply' = reported
               /\ dn_ret' \in vec_set_len(dn_cap, reported)
          ELSE /\ dn_reply' = dn_reply
               /\ dn_ret' = [kind |-> "Err", len |-> 0, err |-> Error_from(out)]
    /\ dn_pc' = "done"
    /\ UNCHANGED <<dn_op, dn_cap, dn_asked>>
    /\ UNCHANGED program_vars
    /\ UNCHANGED <<collab_vars, ioctl_vars, dumb_vars, pixel_vars, blob_vars>>
    /\ UNCHANGED <<flags_vars, event_vars, error_vars>>
    /\ UNCHANGED <<mode_vars, open_vars, commit_vars, order_vars, teardown_vars,
                   each_vars>>

NextName == ReadDriverName \/ DriverNameProbe \/ DriverNameContent

(***************************************************************************)
(* Specifications.                                                         *)
(***************************************************************************)

InitAtomic ==
    /\ build \in Builds
    /\ req = AtomicRequest_new
    /\ panicked = FALSE
    /\ aborted = FALSE
    /\ log = <<>>
    /\ touched = {}
    /\ was_reset = FALSE

InitReplay ==
    /\ rp_script = <<>>
    /\ rp_pc = "idle"
    /\ rp_i = 1
    /\ rp_req = AtomicRequest_new
    /\ rp_before = for_ioctl_req(AtomicRequest_new)

InitReader ==
    /\ rd_op = "none"
    /\ rd_pc = "idle"
    /\ rd_count = <<>>
    /\ rd_ret = <<>>
    /\ rd_i = 1
    /\ rd_result = NoResult
    /\ rd_interrupted = FALSE
    /\ rd_answered = NoAnswer
    /\ rd_iter = NoIter
    /\ rd_script = [phase |-> 0, N |-> <<>>]
    /\ rd_err = "none"
    /\ rd_flags = 0
    /\ rd_name = NoName

InitFlags ==
    /\ fl_flags = 0
    /\ fl_out = NotDecoded

InitEvents ==
    /\ ev_buf = <<>>
    /\ ev_remain = <<>>
    /\ ev_pc = "idle"
    /\ ev_yielded = <<>>
    /\ ev_decoded = <<>>

InitErrors ==
    /\ er_in = [from |-> "none", v |-> ""]
    /\ er_out = NotConverted

InitMode ==
    /\ mi_raw = NoMode
    /\ mi_info = NoMode
    /\ mi_back = NoMode

InitOpen ==
    /\ cf_pc = "idle"
    /\ cf_ret = NotOpened
    /\ cf_raw = "none"

InitCommit ==
    /\ ac_pc = "idle"
    /\ ac_last = NoCommit
    /\ ac_prev = NoCommit

InitOrder ==
    /\ il_s = <<>>
    /\ il_t = <<>>
    /\ il_a = AtomicRequest_new
    /\ il_b = AtomicRequest_new
    /\ il_i = 0

InitTeardown ==
    /\ td_strong = 1
    /\ td_file = "arc"
    /\ td_ret = NotClosed
    /\ td_obj = [o \in Owners |-> [pc |-> "alive", found |-> FALSE]]
    /\ td_calls = <<>>

InitEach ==
    /\ pm_ids = <<>>
    /\ pm_values = <<>>
    /\ pm_i = 1
    /\ pm_pc = "idle"
    /\ pm_ret = "none"
    /\ pm_cb = <<>>
    /\ pm_ascii = <<>>

InitName ==
    /\ dn_op = "none"
    /\ dn_pc = "idle"
    /\ dn_cap = 0
    /\ dn_asked = 0
    /\ dn_reply = 0
    /\ dn_ret = NoNameRet

InitValues ==
    /\ InitMode
    /\ InitOpen
    /\ InitCommit
    /\ InitOrder
    /\ InitTeardown
    /\ InitEach
    /\ InitName

InitCollab ==
    /\ co_mode = "any"
    /\ co_counts = NoCounts
    /\ co_recorded = TRUE

InitIoctl ==
    /\ io_pc = "idle"
    /\ io_req = <<"none", 0>>
    /\ io_issued = <<>>
    /\ io_outcomes = <<>>
    /\ io_ret = "none"

InitDumb ==
    /\ db_pc = "idle"
    /\ db_live = TRUE
    /\ db_calls = <<>>
    /\ db_life = <<>>
    /\ db_fail = "none"
    /\ db_result = "none"
    /\ db_pending = <<>>
    /\ db_handle = 0
    /\ db_fb = 0

InitPixel ==
    /\ px_in = [b |-> [width |-> 0, height |-> 0, bpp |-> 8, pitch |-> 0,
                       len |-> 0],
                x |-> 0, y |-> 0]
    /\ px_out = [called |-> FALSE, ret |-> [some |-> FALSE, idx |-> 0]]

InitBlob ==
    /\ bl_handles = [b \in BlobIds |-> NoHandle]
    /\ bl_kernel = {}
    /\ bl_live = TRUE
    /\ bl_req = [alive |-> TRUE, r |-> AtomicRequest_new]
    /\ bl_destroys = [b \in BlobIds |-> 0]
    /\ bl_reported = {}
    /\ bl_commits = {}

Init ==
    /\ InitAtomic
    /\ InitReplay
    /\ InitReader
    /\ InitCollab
    /\ InitIoctl
    /\ InitDumb
    /\ InitPixel
    /\ InitBlob
    /\ InitFlags
    /\ InitEvents
    /\ InitErrors
    /\ InitValues

vars == <<build, req, panicked, aborted, log, touched, was_reset,
          rp_script, rp_pc, rp_i, rp_req, rp_before,
          rd_op, rd_pc, rd_count, rd_ret, rd_i, rd_result,
          rd_interrupted, rd_answered, rd_iter, rd_script, rd_err,
          co_mode, co_counts, co_recorded,
          io_pc, io_req, io_issued, io_outcomes, io_ret,
          db_pc, db_live, db_calls, db_fail, db_result, db_pending,
          db_handle, db_fb, db_life,
          px_in, px_out,
          bl_handles, bl_kernel, bl_live, bl_req, bl_destroys,
          bl_reported, bl_commits,
          rd_flags, rd_name,
          fl_flags, fl_out,
          ev_buf, ev_remain, ev_pc, ev_yielded, ev_decoded,
          er_in, er_out,
          mi_raw, mi_info, mi_back,
          cf_pc, cf_ret, cf_raw,
          ac_pc, ac_last, ac_prev,
          il_s, il_t, il_a, il_b, il_i,
          td_strong, td_file, td_ret, td_obj, td_calls,
          pm_ids, pm_values, pm_i, pm_pc, pm_ret, pm_cb, pm_ascii,
          dn_op, dn_pc, dn_cap, dn_asked, dn_reply, dn_ret>>

\* The atomic transaction builder under any interleaving of its operations.
Next == New \/ SetProperty \/ SetPropertyAllocFails \/ Reset

Spec == Init /\ [][Next]_vars

NextReplay == ReplayStart \/ ReplayBuild \/ ReplayReset \/ ReplayAgain

SpecReplay == Init /\ [][NextReplay]_vars

\* One reader operation against a collaborator that answers as it likes.
NextReader ==
    \/ Call
    \/ Probe
    \/ Content
    \/ PlanesProbe
    \/ PlanesContent
    \/ Meta
    \/ PropertyMeta
    \/ RangeContent
    \/ Interrupted
    \/ ExchangeFails

\* The readers do not touch the AtomicRequest: its build profile is fixed.
InitSpecReader ==
    /\ Init
    /\ build = "overflow_checks"

SpecReader == InitSpecReader /\ [][NextReader]_vars

\* The loop readers against a collaborator that may settle or be adverse.
\* The reader runs on: a blocking exchange returns and the calling thread is
\* scheduled again.
\* No property of it reads the history of replies, which is not recorded.
InitSpecLoop ==
    /\ InitAtomic
    /\ build = "overflow_checks"
    /\ InitReplay
    /\ InitReader
    /\ co_mode = "any"
    /\ co_counts = NoCounts
    /\ co_recorded = FALSE
    /\ InitIoctl
    /\ InitDumb
    /\ InitPixel
    /\ InitBlob
    /\ InitFlags
    /\ InitEvents
    /\ InitErrors
    /\ InitValues

SpecLoop == InitSpecLoop /\ [][NextLoop]_vars /\ WF_vars(NextLoop)

\* The other components run on their own; the build profile plays no part in
\* them.
InitDevice ==
    /\ Init
    /\ build = "overflow_checks"

SpecIoctl == InitDevice /\ [][NextIoctl]_vars

SpecDumb == InitDevice /\ [][NextDumb]_vars

SpecPixel == InitDevice /\ [][NextPixel]_vars

SpecBlob == InitDevice /\ [][NextBlob]_vars

\* Decoding of a flags word, for every flags word.
NextDecode == FromRawFlags

SpecDecode == InitDevice /\ [][NextDecode]_vars

\* The operations of an ObjectPropMeta that test its flags, for every flags
\* word.
FlagsCall ==
    /\ CallWith(Flags)
    /\ rd_op' \in FlagReaders

NextFlags ==
    \/ FlagsCall
    \/ Content
    \/ RangeContent
    \/ Interrupted
    \/ ExchangeFails

SpecFlags == InitDevice /\ [][NextFlags]_vars

\* Reading and decoding events, in either build profile.
SpecEvents == Init /\ [][NextEvents]_vars

\* One conversion between Error and a raw code, and the conversion back.
SpecErrors == InitDevice /\ [][NextErrors]_vars

\* One kernel mode record converted to ModeInfo and back.
SpecMode == InitDevice /\ [][NextMode]_vars

\* One call of Card::from_file, and the conversion of the error it returns.
SpecOpen == InitDevice /\ [][NextOpen]_vars

\* A request is built and then committed twice.
SpecCommit == InitDevice /\ [][NextCommit]_vars

\* Two requests are built from two orders of the same calls.
SpecOrder == InitDevice /\ [][NextOrder]_vars

\* The teardown of a DumbBuffer and of a BlobHandle, and one call of
\* Card::close or Card::take_file, their steps interleaved in every order.
SpecTeardown == InitDevice /\ [][NextTeardown]_vars

\* One call of each_object_property_meta from its validated lists on.
SpecEach == InitDevice /\ [][NextEach]_vars

\* One call of read_driver_name or of driver_name.
SpecName == InitDevice /\ [][NextName]_vars

(***************************************************************************)
(* Properties of the atomic transaction builder.                           *)
(***************************************************************************)

\* What the kernel reads from the flat arrays: the triples of object i are
\* the obj_prop_counts[i] entries that follow those of the objects before it.
Deserialize(ser) ==
    LET off(i) == SumSeq(SubSeq(ser.obj_prop_counts, 1, i - 1))
    IN  Flatten([i \in 1..Len(ser.obj_ids) |->
            [j \in 1..Min(ser.obj_prop_counts[i],
                          Min(Len(ser.prop_ids), Len(ser.prop_values)) - off(i)) |->
                <<ser.obj_ids[i], ser.prop_ids[off(i) + j], ser.prop_values[off(i) + j]>>]])

Occurrences(s, x) == Cardinality({i \in 1..Len(s) : s[i] = x})

SameMultiset(s, t) ==
    /\ Len(s) = Len(t)
    /\ \A i \in 1..Len(s) : Occurrences(s, s[i]) = Occurrences(t, s[i])

\* The calls of the log made for one raw object id, in call order.
CallsFor(l, o) == SelectSeq(l, LAMBDA t : t[1] = o)

StrictlyAscending(s) == \A i \in 1..(Len(s) - 1) : s[i] < s[i + 1]

SeqRange(s) == {s[i] : i \in 1..Len(s)}

\* C1: on a request that was never reset, whose set_property calls all
\* returned, splitting prop_ids/prop_values by obj_prop_counts recovers the
\* multiset of the triples set, and each object's count is the number of
\* set_property calls made for it.
C1_RoundTrip ==
    (~panicked /\ ~was_reset) =>
        LET ser == for_ioctl_req(req)
        IN  /\ SameMultiset(Deserialize(ser), log)
            /\ SeqRange(ser.obj_ids) = {t[1] : t \in SeqRange(log)}
            /\ \A i \in 1..Len(ser.obj_ids) :
                  ser.obj_prop_counts[i] = Len(CallsFor(log, ser.obj_ids[i]))

\* C2: the shape of every serialization: obj_ids strictly ascending, one per
\* object touched since new(); counts parallel to obj_ids; prop_ids and
\* prop_values of equal length, equal to the sum of the counts and to
\* total_props; each object's properties contiguous, in obj_ids order and,
\* within an object, in call order.
C2_SerializationShape ==
    ~panicked =>
        LET ser == for_ioctl_req(req)
            off(i) == SumSeq(SubSeq(ser.obj_prop_counts, 1, i - 1))
        IN  /\ StrictlyAscending(ser.obj_ids)
            /\ SeqRange(ser.obj_ids) = touched
            /\ Len(ser.obj_prop_counts) = Len(ser.obj_ids)
            /\ Len(ser.prop_ids) = Len(ser.prop_values)
            /\ Len(ser.prop_ids) = SumSeq(ser.obj_prop_counts)
            /\ Len(ser.prop_ids) = req.total_props
            /\ \A i \in 1..Len(ser.obj_ids) :
                  LET calls == CallsFor(log, ser.obj_ids[i])
                  IN  /\ ser.obj_prop_counts[i] = Len(calls)
                      /\ \A j \in 1..Len(calls) :
                            /\ off(i) + j <= Len(ser.prop_ids)
                            /\ ser.prop_ids[off(i) + j] = calls[j][2]
                            /\ ser.prop_values[off(i) + j] = calls[j][3]

\* C3: once S has been built, the request reset and S replayed, the
\* serialization equals the one taken before the reset.
C3_ResetReplayIdentical ==
    rp_pc = "done" => for_ioctl_req(rp_req) = rp_before

\* C3 witness: a replay of a sequence that touches two objects, one of them
\* twice, has completed.
C3_Witness ==
    /\ rp_pc = "done"
    /\ Len(rp_script) >= 3
    /\ Len(rp_before.obj_ids) = 2
    /\ Len(rp_before.prop_ids) = Len(rp_script)

\* C4: after reset() the request serializes like a new one, and after
\* further set_property calls obj_ids lists exactly the objects touched
\* since the reset.
C4_ResetReturnsToEmpty ==
    (was_reset /\ ~panicked) =>
        /\ SeqRange(for_ioctl_req(req).obj_ids) = {t[1] : t \in SeqRange(log)}
        /\ (log = <<>> => for_ioctl_req(req) = for_ioctl_req(AtomicRequest_new))

\* C5: in every state reached by new, set_property and reset, each object's
\* two lists have equal length and total_props is the sum of those lengths.
C5_ParallelListsAndTotal ==
    ~panicked =>
        /\ \A k \in DOMAIN req.objs :
              Len(req.objs[k].prop_ids) = Len(req.objs[k].prop_values)
        /\ req.total_props = Stored(req)

\* C6: the total never passes the counter's capacity: the call that would
\* take it past U32_MAX panics instead of returning, so in no state left by
\* returned calls has total_props wrapped or parted from the stored count.
C6_TotalWithinU32 ==
    ~panicked =>
        /\ Stored(req) <= U32_MAX
        /\ req.total_props = Stored(req)

(***************************************************************************)
(* Properties of the snapshot readers.                                     *)
(***************************************************************************)

NoUninit(arrays) ==
    \A i \in 1..Len(arrays) : \A j \in 1..Len(arrays[i]) : arrays[i][j] # Uninit

\* C7: when the collaborator reports N on the probe, some M # N on the first
\* content call and N on every later call, and no exchange or reservation
\* fails, the reader returns Ok with arrays of exactly N elements, each
\* written by a content call that reported N; and no reader ever returns an
\* element that no content call wrote.
C7_RetryReturnsFullResult ==
    /\ (rd_pc = "done" /\ rd_script.phase = 2 /\ rd_err = "none") =>
          /\ rd_result.ok
          /\ Len(rd_result.arrays) = Len(rd_script.N)
          /\ \A i \in 1..Len(rd_script.N) :
                /\ Len(rd_result.arrays[i]) = rd_script.N[i]
                /\ \A j \in 1..rd_script.N[i] : rd_result.arrays[i][j] = rd_script.N[i]
    /\ (rd_pc = "done" /\ rd_result.ok) =>
          /\ NoUninit(rd_result.arrays)
          /\ NoUninit(<<rd_result.planes>>)

\* C7 witness: object_properties has returned one property after a content
\* call that reported a different count.
C7_Witness ==
    /\ rd_pc = "done"
    /\ rd_op = "object_properties"
    /\ rd_script.phase = 2
    /\ rd_script.N = <<1>>
    /\ rd_result.ok
    /\ Len(rd_result.arrays[1]) = 1

\* C8: resources builds its four arrays only from an iteration whose content
\* exchange reported the four counts its probe reported, and the arrays have
\* those lengths; an iteration with a mismatch in any count builds nothing
\* and the read starts again with a probe.
C8_ResourcesAllOrNothing ==
    rd_op = "resources" =>
        /\ (rd_pc \in {"planes_probe", "planes_content"} \/ (rd_pc = "done" /\ rd_result.ok)) =>
              /\ rd_iter.probed /\ rd_iter.answered
              /\ rd_iter.content = rd_iter.probe
              /\ Len(rd_ret) = Len(rd_iter.probe)
              /\ \A i \in 1..Len(rd_ret) : Len(rd_ret[i]) = rd_iter.probe[i]
        /\ (rd_pc = "done" /\ rd_result.ok) => rd_result.arrays = rd_ret
        /\ (rd_iter.answered /\ rd_iter.content # rd_iter.probe) =>
              /\ rd_ret = <<>>
              /\ rd_pc \in {"probe", "done"}
              /\ ~rd_result.ok

\* C8 witness: resources has returned after an iteration in which only the
\* last count differed was thrown away.
C8_Witness ==
    /\ rd_op = "resources"
    /\ rd_pc = "done"
    /\ rd_result.ok
    /\ rd_script.phase = 2
    /\ rd_script.N = <<1, 1, 1, 0>>
    /\ rd_result.arrays = <<<<1>>, <<1>>, <<1>>, <<>>>>

ZeroCapacity(cap) == \A i \in 1..Len(cap) : cap[i] = 0

SnapshotReaders == {"resources", "connector_state", "object_properties",
                    "each_object_property_meta"}

\* C10: resources, connector_state, object_properties and
\* each_object_property_meta return Err exactly when an exchange failed with
\* an error other than EINTR or a reservation failed; the error returned is
\* that failure, mapped; the operation ends with the failure; count
\* mismatches alone never give an Err.
C10_ErrIffFailure ==
    rd_op \in SnapshotReaders =>
        /\ rd_err # "none" => rd_pc = "done"
        /\ rd_pc = "done" =>
              /\ ~rd_result.ok <=> rd_err # "none"
              /\ rd_err = "reserve" => rd_result.err = "SystemMem"
              /\ rd_err = "ENOENT" => rd_result.err = "NonExist"
              /\ rd_err = "ENOMEM" => rd_result.err = "SystemMem"
              /\ rd_err = "EFAULT" => rd_result.err = "Other(EFAULT)"

\* C10 witness: connector_state has returned Ok although a content exchange
\* reported counts other than those requested.
C10_Witness ==
    /\ rd_op = "connector_state"
    /\ rd_pc = "done"
    /\ rd_result.ok
    /\ rd_script.phase = 2

(***************************************************************************)
(* Properties of the retry loop's termination.                             *)
(***************************************************************************)

\* C11: once the collaborator's counts stop changing and exchanges succeed,
\* resources, connector_state and object_properties eventually return;
\* against a collaborator that changes a count between every probe and its
\* content call they never return and never report an error.
C11_ReturnsIffCountsSettle ==
    /\ (co_mode = "stable") ~> (rd_pc = "done")
    /\ [](co_mode = "adverse" => (rd_pc # "done" /\ rd_result = NoResult))

\* C11 witness: resources has returned its arrays and planes from a
\* collaborator that became stable.
C11_Witness ==
    /\ co_mode = "stable"
    /\ rd_op = "resources"
    /\ rd_pc = "done"
    /\ rd_result.ok
    /\ rd_result.arrays = <<<<1>>, <<>>, <<1>>, <<1>>>>
    /\ rd_result.planes = <<1>>

\* The size probe (for values and enum_members: the counts of the
\* ObjectPropMeta they are called on) has reported zero for every array, and
\* nothing has been reported since.
ZeroProbed ==
    IF rd_op \in {"values", "enum_members"}
    THEN rd_pc # "idle" /\ rd_script.phase = 1 /\ rd_script.N = zeroed(rd_op)
    ELSE rd_iter.probed /\ ~rd_iter.answered /\ rd_iter.probe = zeroed(rd_op)

\* C12: in every variable-length read, once the size probe has reported zero
\* elements for every array the operation has returned an empty result: no
\* content exchange follows the probe.
C12_ZeroProbeReturnsEmpty ==
    (rd_op \in ReaderOps \ {"range"} /\ ZeroProbed) =>
        /\ rd_pc = "done"
        /\ rd_result.ok
        /\ \A i \in 1..Len(rd_result.arrays) : rd_result.arrays[i] = <<>>

(***************************************************************************)
(* Properties of drm_ioctl.                                                *)
(***************************************************************************)

\* C13: every exchange drm_ioctl issues is the request and argument it was
\* called with; an exchange is issued again exactly after an EINTR outcome;
\* the first other outcome is what drm_ioctl returns, and it issues nothing
\* after it; EINTR is never returned.
C13_RetriesExactlyOnEintr ==
    /\ \A i \in 1..Len(io_issued) : io_issued[i] = io_req
    /\ Len(io_outcomes) = Len(io_issued)
    /\ \A i \in 1..(Len(io_outcomes) - 1) : io_outcomes[i] = "EINTR"
    /\ (io_pc = "loop" /\ io_outcomes # <<>>) => Last(io_outcomes) = "EINTR"
    /\ io_pc = "returned" =>
          /\ io_outcomes # <<>>
          /\ io_ret = Last(io_outcomes)
          /\ io_ret # "EINTR"
    /\ io_ret # "EINTR"

\* C13 witness: drm_ioctl has returned ENOENT after two interrupted
\* exchanges.
C13_Witness ==
    /\ io_pc = "returned"
    /\ io_outcomes = <<"EINTR", "EINTR", "ENOENT">>
    /\ io_ret = "ENOENT"

(***************************************************************************)
(* Properties of error propagation.                                        *)
(***************************************************************************)

\* C14: when the GETPROPERTY exchange of range, values or enum_members fails
\* with an error other than EINTR, the operation returns that error, mapped,
\* as an Err value; it does not panic.
C14_PropertyReadsReturnErr ==
    (rd_op \in {"range", "values", "enum_members"}
        /\ rd_err \in Errnos \ {"EINTR"}) =>
        /\ rd_pc = "done"
        /\ ~rd_result.ok
        /\ rd_result.err = Error_from(rd_err)

\* C15: a failed reservation of an internally sized buffer is returned as
\* Error::SystemMem; it never aborts the process.  For the atomic builder:
\* no set_property call ends in an abort.
C15_AllocFailureNeverAborts == ~aborted

(***************************************************************************)
(* Properties of dumb buffers.                                             *)
(***************************************************************************)

\* The calls of db_calls that free a kernel object, without their outcome.
RECURSIVE FreeCalls(_)
FreeCalls(calls) ==
    IF calls = <<>> THEN <<>>
    ELSE IF Head(calls).op \in {"RMFB", "DESTROY_DUMB"}
         THEN <<<<Head(calls).op, Head(calls).arg>>>> \o FreeCalls(Tail(calls))
         ELSE FreeCalls(Tail(calls))

\* C16: when create_dumb_buffer has returned an error, the free calls it
\* issued are: none if CREATE_DUMB failed; DESTROY_DUMB of the new handle if
\* ADDFB failed; RMFB of the new framebuffer and then DESTROY_DUMB of the new
\* handle if MAP_DUMB or the mapping failed.  Each follows the failed step.
C16_FailureFreesEarlierObjects ==
    /\ db_pc = "failed" =>
          /\ db_result \notin {"none", "Ok"}
          /\ FreeCalls(db_calls) =
                CASE db_fail = "CREATE_DUMB" -> <<>>
                  [] db_fail = "ADDFB" -> <<<<"DESTROY_DUMB", db_handle>>>>
                  [] OTHER -> <<<<"RMFB", db_fb>>, <<"DESTROY_DUMB", db_handle>>>>
          /\ FreeCalls(SubSeq(db_calls, 1, StepIndex(db_fail))) = <<>>
          /\ db_calls[StepIndex(db_fail)] =
                [op |-> db_fail, arg |-> StepArg(db_fail, db_handle), ok |-> FALSE]
    /\ db_pc \in {"CREATE_DUMB", "ADDFB", "MAP_DUMB", "mmap", "held"} =>
          FreeCalls(db_calls) = <<>>

\* C16 witness: the mapping failed for a buffer whose handle and framebuffer
\* id are the same number, and create_dumb_buffer has returned the error
\* after RMFB and a DESTROY_DUMB that failed.
C16_Witness ==
    /\ db_pc = "failed"
    /\ db_fail = "mmap"
    /\ db_handle = 1
    /\ db_fb = 1
    /\ Len(db_calls) = 6
    /\ db_calls[5].op = "RMFB"
    /\ db_calls[6] = [op |-> "DESTROY_DUMB", arg |-> 1, ok |-> FALSE]

\* The calls of db_calls, without their outcome.
CallsOf(calls) == [i \in 1..Len(calls) |-> <<calls[i].op, calls[i].arg>>]

\* C17: the drop of a DumbBuffer issues munmap first; with the device file
\* still open it goes on to RMFB of the framebuffer and DESTROY_DUMB of the
\* handle, whatever the outcome of munmap and of RMFB; with the device file
\* gone it issues nothing else.  The drop reports nothing.
C17_DropTearsDownInOrder ==
    /\ db_pc \in {"drop_rmfb", "drop_destroy", "dropped"} =>
          /\ db_calls # <<>>
          /\ db_calls[1].op = "munmap"
          /\ db_result = "Ok"
    /\ db_pc \in {"drop_rmfb", "drop_destroy"} => db_live
    /\ db_pc = "drop_destroy" =>
          CallsOf(db_calls) = <<<<"munmap", 0>>, <<"RMFB", db_fb>>>>
    /\ db_pc = "dropped" =>
          CallsOf(db_calls) =
             IF db_live
             THEN <<<<"munmap", 0>>, <<"RMFB", db_fb>>, <<"DESTROY_DUMB", db_handle>>>>
             ELSE <<<<"munmap", 0>>>>

\* C17 witness: the drop has issued DESTROY_DUMB after munmap and RMFB both
\* failed.
C17_Witness ==
    /\ db_pc = "dropped"
    /\ db_live
    /\ Len(db_calls) = 3
    /\ ~db_calls[1].ok
    /\ ~db_calls[2].ok
    /\ db_calls[3].op = "DESTROY_DUMB"

\* C18 as stated: pixel_idx returns None when x >= width or y >= height, and
\* otherwise y*pitch + x*(bpp/8), which is below the length of the buffer
\* whenever pitch >= width*(bpp/8) and length >= pitch*height.
C18_IndexBelowLength ==
    px_out.called =>
        LET b == px_in.b
            x == px_in.x
            y == px_in.y
            r == px_out.ret
        IN  /\ (x >= b.width \/ y >= b.height) => ~r.some
            /\ (x < b.width /\ y < b.height) =>
                  /\ r.some
                  /\ r.idx = (y * b.pitch) + (x * (b.bpp \div 8))
            /\ (r.some /\ b.pitch >= b.width * (b.bpp \div 8)
                       /\ b.len >= b.pitch * b.height) => r.idx < b.len

\* C18 amended: the same, with the index below the length of the buffer
\* whenever, in addition, pitch >= 1.
C18_IndexBelowLengthNonzeroPitch ==
    px_out.called =>
        LET b == px_in.b
            x == px_in.x
            y == px_in.y
            r == px_out.ret
        IN  /\ (x >= b.width \/ y >= b.height) => ~r.some
            /\ (x < b.width /\ y < b.height) =>
                  /\ r.some
                  /\ r.idx = (y * b.pitch) + (x * (b.bpp \div 8))
            /\ (r.some /\ b.pitch >= b.width * (b.bpp \div 8)
                       /\ b.pitch >= 1
                       /\ b.len >= b.pitch * b.height) => r.idx < b.len

\* C18 witness: the last pixel of a 2x2 buffer of 4 bits per pixel, pitch 1
\* and length 2 has index 1.
C18_Witness ==
    /\ px_out.called
    /\ px_in = [b |-> [width |-> 2, height |-> 2, bpp |-> 4, pitch |-> 1,
                       len |-> 2],
                x |-> 1, y |-> 1]
    /\ px_out.ret = [some |-> TRUE, idx |-> 1]

(***************************************************************************)
(* Properties of property blobs.                                           *)
(***************************************************************************)

\* C19: at most one DESTROYPROPBLOB exchange is issued for a blob id, also
\* when the exchange of destroy failed; and a handle destroyed or dropped
\* by the caller with the device file gone issues none and reports no
\* error.
C19_DestroyAtMostOnce ==
    \A b \in BlobIds :
        /\ bl_destroys[b] <= 1
        /\ (bl_handles[b].by \in {"destroy", "drop"} /\ bl_handles[b].live) =>
              /\ bl_destroys[b] = 1
              /\ ~bl_handles[b].id
        /\ (bl_handles[b].by \in {"destroy", "drop"} /\ ~bl_handles[b].live) =>
              /\ bl_destroys[b] = 0
              /\ <<b, TRUE>> \notin bl_reported
              /\ <<b, FALSE>> \notin bl_reported

\* C19 witness: destroy has failed on the exchange and the drop of the
\* handle has followed: one exchange was issued.
C19_Witness ==
    /\ bl_handles[1].at = "gone"
    /\ bl_handles[1].by = "destroy"
    /\ <<1, TRUE>> \in bl_reported
    /\ bl_destroys[1] = 1

\* C20: while a BlobHandle is in the drops list of the request, no
\* DESTROYPROPBLOB exchange has been issued for it and, with the device
\* file open, its blob exists; no atomic_commit names a blob that does not
\* exist; set_property never drops the handle; and a handle that the reset
\* or the drop of the request released with the device file open has had
\* its one exchange.
C20_BlobOutlivesRequest ==
    /\ \A b \in BlobIds :
          /\ bl_handles[b].at = "request" =>
                /\ bl_req.alive
                /\ b \in DropsOf(bl_req.r)
                /\ bl_destroys[b] = 0
                /\ bl_live => b \in bl_kernel
          /\ bl_handles[b].by # "set_property"
          /\ (bl_handles[b].by \in {"reset", "drop_request"} /\ bl_handles[b].live) =>
                bl_destroys[b] = 1
    /\ \A c \in bl_commits : c.missing = {}
    /\ bl_req.alive =>
          \A b \in DropsOf(bl_req.r) : bl_handles[b].at = "request"

\* C20 witness: a request naming blob 1 was committed, then reset, and the
\* reset issued the exchange that destroys the blob.
C20_Witness ==
    /\ [blobs |-> {1}, missing |-> {}] \in bl_commits
    /\ bl_handles[1].at = "gone"
    /\ bl_handles[1].by = "reset"
    /\ bl_destroys[1] = 1
    /\ 1 \notin bl_kernel

(***************************************************************************)
(* Properties of property metadata.                                        *)
(***************************************************************************)

\* The value of the extended-type field of a flags word.
ExtendedValue(flags) == BitAnd(flags, DRM_MODE_PROP_EXTENDED_TYPE) \div 64

\* The legacy type bits of a flags word.
LegacyBits(flags) == BitAnd(flags, DRM_MODE_PROP_LEGACY_TYPE)

\* The type a single legacy bit stands for.
LegacyType(bits) ==
    CASE bits = DRM_MODE_PROP_RANGE -> "Range"
      [] bits = DRM_MODE_PROP_ENUM -> "Enum"
      [] bits = DRM_MODE_PROP_BLOB -> "Blob"
      [] bits = DRM_MODE_PROP_BITMASK -> "Bitmask"
      [] OTHER -> "none"

\* Neither group of type bits holds a known type.
NoRecognizedType(flags) ==
    /\ LegacyBits(flags) = 0
    /\ ExtendedValue(flags) \notin {1, 2}

\* Bit 2 of a flags word is set.
ImmutableBit(flags) == BitAnd(flags, DRM_MODE_PROP_IMMUTABLE) # 0

\* The parts of C21 that hold whatever the flags are.
C21_Common ==
    fl_out.called =>
        /\ fl_out.ret.immutable <=> ImmutableBit(fl_flags)
        /\ fl_flags = BitOr(DRM_MODE_PROP_IMMUTABLE, DRM_MODE_PROP_ENUM) =>
              fl_out.ret = [typ |-> "Enum", immutable |-> TRUE]
        /\ fl_flags = DRM_MODE_PROP_OBJECT =>
              fl_out.ret = [typ |-> "Object", immutable |-> FALSE]

\* C21 as stated: from_raw_flags returns immutable = true exactly when bit 2
\* (IMMUTABLE) is set; IMMUTABLE plus the ENUM bit decode to (Enum, true);
\* the extended-type value of Object decodes to (Object, false); flags with
\* no recognized type bits decode to (Unknown, false).
C21_DecodesFlags ==
    /\ C21_Common
    /\ (fl_out.called /\ NoRecognizedType(fl_flags)) =>
          fl_out.ret = [typ |-> "Unknown", immutable |-> FALSE]

\* C21 amended: as stated, except that flags with no recognized type bits
\* decode to Unknown with immutable following the IMMUTABLE bit: (Unknown,
\* false) only when that bit is clear.
C21_DecodesFlagsImmutableKept ==
    /\ C21_Common
    /\ (fl_out.called /\ NoRecognizedType(fl_flags)) =>
          fl_out.ret = [typ |-> "Unknown", immutable |-> ImmutableBit(fl_flags)]

\* C21 witness: IMMUTABLE alone has been decoded to (Unknown, true).
C21_Witness ==
    /\ fl_out.called
    /\ fl_flags = DRM_MODE_PROP_IMMUTABLE
    /\ fl_out.ret = [typ |-> "Unknown", immutable |-> TRUE]

\* C22: when one legacy type bit and a non-zero extended-type value are both
\* set, from_raw_flags returns the legacy type; it returns Unknown only when
\* neither group matches a known type.
C22_LegacyWins ==
    fl_out.called =>
        /\ (LegacyType(LegacyBits(fl_flags)) # "none"
               /\ ExtendedValue(fl_flags) # 0) =>
              fl_out.ret.typ = LegacyType(LegacyBits(fl_flags))
        /\ fl_out.ret.typ = "Unknown" =>
              /\ LegacyType(LegacyBits(fl_flags)) = "none"
              /\ ExtendedValue(fl_flags) \notin {1, 2}

\* C23: range returns Err(NotSupported) without issuing an exchange whenever
\* property_type of its flags is neither Range nor SignedRange, and goes on
\* to the exchange only when it is one of the two.
C23_RangeOnlyForRangeTypes ==
    rd_op = "range" =>
        /\ property_type(rd_flags) \notin {"Range", "SignedRange"} =>
              /\ rd_pc = "done"
              /\ rd_result = ErrResult("NotSupported")
              /\ rd_answered = NoAnswer
        /\ (rd_pc = "range_content" \/ rd_answered # NoAnswer) =>
              property_type(rd_flags) \in {"Range", "SignedRange"}

\* C24: enum_members fetches members only when property_type of its flags is
\* Enum or Bitmask; for every other type it issues no exchange and yields no
\* members.
C24_EnumMembersOnlyForEnumTypes ==
    rd_op = "enum_members" =>
        /\ property_type(rd_flags) \notin {"Enum", "Bitmask"} =>
              /\ rd_pc = "done"
              /\ rd_answered = NoAnswer
              /\ rd_result.arrays \in {<<>>, <<<<>>>>}
        /\ (rd_pc = "content" \/ rd_answered # NoAnswer) =>
              property_type(rd_flags) \in {"Enum", "Bitmask"}

\* C25: every name handed to a caller in an ObjectPropMeta has no byte of
\* 0x80 or more; property_meta returns Err(NotSupported) whenever the name
\* it fetched has such a byte, and each_object_property_meta does not pass
\* such a property to its callback.
C25_NamesAreAscii ==
    /\ rd_name.given => \A i \in 1..Len(rd_name.fetched) : rd_name.fetched[i] < 128
    /\ (rd_op = "property_meta" /\ rd_pc = "done" /\ rd_err = "none") =>
          IF \E i \in 1..Len(rd_name.fetched) : rd_name.fetched[i] >= 128
          THEN rd_result = ErrResult("NotSupported") /\ ~rd_name.given
          ELSE rd_result.ok /\ rd_name.given
    /\ (rd_op = "each_object_property_meta" /\ rd_name # NoName
           /\ rd_err = "none") =>
          (rd_i - 1 \in SeqRange(rd_result.calls) <=> rd_name.given)

\* C25 witness: each_object_property_meta has returned without passing on
\* the one property it fetched, whose name has a byte that is not ASCII
\* after its NUL.
C25_Witness ==
    /\ rd_op = "each_object_property_meta"
    /\ rd_pc = "done"
    /\ rd_result.ok
    /\ rd_result.calls = <<>>
    /\ Len(rd_name.fetched) >= 2
    /\ rd_name.fetched[1] = 0
    /\ rd_name.fetched[2] = 128
    /\ ~rd_name.given

(***************************************************************************)
(* Properties of event decoding.                                           *)
(***************************************************************************)

\* The bytes read hold a header at offset `at` whose claimed length covers
\* the header and ends within the bytes read.
WellFormedAt(at) ==
    /\ at + HEADER_LEN <= Len(ev_buf)
    /\ HeaderOf(SubSeq(ev_buf, at + 1, Len(ev_buf))).len >= HEADER_LEN
    /\ at + HeaderOf(SubSeq(ev_buf, at + 1, Len(ev_buf))).len <= Len(ev_buf)

\* The claimed length of the header at offset `at`.
ClaimedAt(at) == HeaderOf(SubSeq(ev_buf, at + 1, Len(ev_buf))).len

\* The type tag of the header at offset `at`.
TagAt(at) == HeaderOf(SubSeq(ev_buf, at + 1, Len(ev_buf))).typ

\* The value of the little-endian field of n bytes at offset `at`.
FieldAt(at, n) == from_le(SubSeq(ev_buf, at + 1, at + n))

\* The bytes read are exactly one event of a known shape.
OneKnownEvent ==
    /\ Len(ev_buf) = HEADER_LEN + SizeOfDrmEventVblank
    /\ ClaimedAt(0) = Len(ev_buf)
    /\ TagAt(0) \in {1, 2, 3}

\* The first header claims more bytes than were read.
ClaimsTooMuch ==
    /\ Len(ev_buf) >= HEADER_LEN
    /\ ClaimedAt(0) > Len(ev_buf)

\* The bytes read are exactly two events, each with a header that claims
\* its length.
TwoValidEvents ==
    /\ WellFormedAt(0)
    /\ WellFormedAt(ClaimedAt(0))
    /\ ClaimedAt(0) + ClaimedAt(ClaimedAt(0)) = Len(ev_buf)

\* The decoded form of the event of a known shape at offset 0.
ExpectedGeneric ==
    IF TagAt(0) = 3
    THEN [kind |-> "Generic", shape |-> "CrtcSequence",
          ev |-> [user_data |-> FieldAt(8, 8),
                  time_ns |-> IF FieldAt(16, 8) >= (ByteModulus ^ 8) \div 2
                              THEN FieldAt(16, 8) - (ByteModulus ^ 8)
                              ELSE FieldAt(16, 8),
                  sequence |-> FieldAt(24, 8)]]
    ELSE [kind |-> "Generic",
          shape |-> IF TagAt(0) = 1 THEN "VBlank" ELSE "FlipComplete",
          ev |-> [user_data |-> FieldAt(8, 8),
                  tv_sec |-> FieldAt(16, 4),
                  tv_usec |-> FieldAt(20, 4),
                  sequence |-> FieldAt(24, 4),
                  crtc_id |-> FieldAt(28, 4)]]

\* C26: a buffer that is exactly one well-formed event of a known shape
\* decodes to exactly one event, of that shape, with the fields of the body;
\* a buffer whose first header claims more than the bytes read yields no
\* event; a buffer that is two valid events yields exactly those two, in
\* buffer order.
C26_DecodesBuffers ==
    /\ (ev_pc # "idle" /\ OneKnownEvent) =>
          /\ ev_pc \in {"iterating", "yielded", "ended"}
          /\ Len(ev_yielded) <= 1
          /\ Len(ev_decoded) = 1 => ev_decoded[1] = ExpectedGeneric
          /\ ev_pc = "ended" => Len(ev_decoded) = 1
    /\ (ev_pc # "idle" /\ ClaimsTooMuch) =>
          /\ ev_pc \in {"iterating", "ended"}
          /\ ev_yielded = <<>>
          /\ ev_decoded = <<>>
    /\ (ev_pc # "idle" /\ TwoValidEvents) =>
          /\ ev_pc \in {"iterating", "yielded", "ended"}
          /\ Len(ev_yielded) <= 2
          /\ Len(ev_yielded) >= 1 =>
                /\ ev_yielded[1].at = 0
                /\ ev_yielded[1].hdr = [typ |-> TagAt(0), len |-> ClaimedAt(0)]
          /\ Len(ev_yielded) = 2 =>
                /\ ev_yielded[2].at = ClaimedAt(0)
                /\ ev_yielded[2].hdr = [typ |-> TagAt(ClaimedAt(0)),
                                        len |-> ClaimedAt(ClaimedAt(0))]
          /\ ev_pc = "ended" => Len(ev_yielded) = 2 /\ Len(ev_decoded) = 2

\* C26 witness: a buffer of a page-flip event followed by a driver event
\* with a body has been decoded to those two events, and the iteration has
\* ended.
C26_Witness ==
    /\ ev_pc = "ended"
    /\ TwoValidEvents
    /\ Len(ev_decoded) = 2
    /\ ev_decoded[1].kind = "Generic"
    /\ ev_decoded[1].shape = "FlipComplete"
    /\ ev_decoded[2].kind = "Driver"
    /\ Len(ev_decoded[2].body) = 8

\* C27: every event yielded advances the remaining slice by at least the
\* header size, so that at most len/8 events are yielded from a buffer of
\* len bytes, whatever length a header claims.
C27_IterationIsFinite ==
    /\ Len(ev_yielded) <= Len(ev_buf) \div HEADER_LEN
    /\ \A i \in 1..(Len(ev_yielded) - 1) :
          ev_yielded[i + 1].at >= ev_yielded[i].at + HEADER_LEN
    /\ \A i \in 1..Len(ev_yielded) :
          i = Len(ev_yielded) =>
             Len(ev_buf) - Len(ev_remain) >= ev_yielded[i].at + HEADER_LEN

\* C28: every event yielded is a view into the bytes read: its body length
\* is the claimed length minus the header size, never negative or wrapped,
\* and header and body lie within the bytes read.
C28_EventsAreViews ==
    \A i \in 1..Len(ev_yielded) :
        LET e == ev_yielded[i]
        IN  /\ e.hdr.len >= HEADER_LEN
            /\ e.body_len = e.hdr.len - HEADER_LEN
            /\ e.at >= 0
            /\ e.at + HEADER_LEN + e.body_len <= Len(ev_buf)

\* C29: from_raw yields Driver, with the tag and a copy of the body, for
\* every tag of 0x80000000 or more; Generic, with the fields of the body,
\* only for tags 1, 2, 3 with a body at least as long as the shape; and
\* Unsupported for every other event.  It yields one of the three for every
\* raw event it is given.
C29_FromRawByTag ==
    /\ ev_pc = "panicked" => Len(ev_decoded) = Len(ev_yielded)
    /\ \A i \in 1..Len(ev_decoded) :
          LET e == ev_yielded[i]
              d == ev_decoded[i]
              known == e.hdr.typ \in {1, 2, 3}
                          /\ e.body_len >= SizeOfDrmEventVblank
          IN  /\ e.hdr.typ >= DriverTagMin =>
                    d = [kind |-> "Driver", typ |-> e.hdr.typ, body |-> BytesOf(e)]
              /\ d.kind = "Generic" <=> (e.hdr.typ < DriverTagMin /\ known)
              /\ d.kind = "Generic" =>
                    /\ IsView(e)
                    /\ d.shape = CASE e.hdr.typ = 1 -> "VBlank"
                                   [] e.hdr.typ = 2 -> "FlipComplete"
                                   [] OTHER -> "CrtcSequence"
                    /\ d.ev.user_data = FieldAt(e.at + HEADER_LEN, 8)
                    /\ d.ev.sequence =
                          IF e.hdr.typ = 3
                          THEN FieldAt(e.at + HEADER_LEN + 16, 8)
                          ELSE FieldAt(e.at + HEADER_LEN + 16, 4)
              /\ (e.hdr.typ < DriverTagMin /\ ~known) =>
                    d = [kind |-> "Unsupported", typ |-> e.hdr.typ,
                         body |-> BytesOf(e)]

(***************************************************************************)
(* Properties of the error conversions.                                    *)
(***************************************************************************)

\* C30: converting any Error to its raw code and back gives the same Error;
\* converting a raw code that maps to a named category to Error and back
\* gives the same raw code.
C30_ErrorRoundTrips ==
    er_out.steps = 2 =>
        /\ er_in.from = "Error" => er_out.back = er_in.v
        /\ (er_in.from = "raw" /\ er_out.there \in NamedErrors) =>
              er_out.back = er_in.v

(***************************************************************************)
(* Properties of ModeInfo.                                                 *)
(***************************************************************************)

C32_FromFileClassifiesProbe ==
    cf_pc = "returned" =>
        LET probe == Last(io_outcomes)
        IN /\ cf_ret.ok => probe = "Ok"
           /\ probe # "Ok" => ~cf_ret.ok
           /\ (~cf_ret.ok /\ cf_ret.err = "NotDrmCard") <=> probe = "ENOTTY"
           /\ probe \notin {"Ok", "ENOTTY"} => cf_ret.err = Other(probe)
           /\ cf_raw # "none" => cf_raw = probe

\* C32 witness: the probe was interrupted once and then failed with ENOTTY;
\* from_file returned NotDrmCard, which converted back to ENOTTY.
C32_Witness ==
    /\ cf_pc = "returned"
    /\ io_outcomes = <<"EINTR", "ENOTTY">>
    /\ cf_ret = [ok |-> FALSE, err |-> "NotDrmCard"]
    /\ cf_raw = "ENOTTY"

(***************************************************************************)
(* Properties of Card::atomic_commit.                                      *)
(***************************************************************************)

\* C33: atomic_commit, whether its exchange succeeds or fails, leaves the
\* AtomicRequest as it was (objects, per-object lists, total_props and
\* drops list); a second commit of the same request sends the arrays the
\* first sent; each call issues one logical MODE_ATOMIC exchange: every
\* exchange of the call carries the same argument, and only an interrupted
\* one is followed by another.
C33_CommitLeavesRequest ==
    ac_last.made =>
        /\ req = ac_last.before
        /\ ac_last.tmp.parts = for_ioctl_req(req)
        /\ ac_prev.made =>
              /\ ac_prev.req = ac_last.before
              /\ ac_prev.parts = ac_last.tmp.parts
        /\ \A i \in 1..Len(io_issued) :
              io_issued[i] = <<"MODE_ATOMIC", ac_last.tmp>>
        /\ \A i \in 1..(Len(io_outcomes) - 1) : io_outcomes[i] = "EINTR"
        /\ ac_last.ret # "none" =>
              /\ ac_pc = "idle"
              /\ io_outcomes # <<>>
              /\ Last(io_outcomes) # "EINTR"

\* C33 witness: a request that holds a blob in its drops list and
\* properties of two objects has been committed twice; the first commit
\* succeeded, the second failed after an interrupted exchange.
C33_Witness ==
    /\ ac_prev.made
    /\ ac_last.made
    /\ ac_last.ret = "NonExist"
    /\ io_outcomes = <<"EINTR", "ENOENT">>
    /\ req.drops # <<>>
    /\ Len(for_ioctl_req(req).obj_ids) = 2
    /\ req.total_props = 2

(***************************************************************************)
(* Properties of the order of set_property calls.                          *)
(***************************************************************************)

\* Both requests have been built.
BothBuilt == il_s # <<>> /\ il_i = Len(il_s) + Len(il_t)

\* C34: two set_property sequences that are interleavings of the same
\* per-object subsequences (an object being a raw object id, which is what
\* the kernel reads) serialize to identical arrays.
C34_InterleavingsSerializeAlike ==
    (BothBuilt /\ Interleaving(il_s, il_t)) =>
        for_ioctl_req(il_a) = for_ioctl_req(il_b)

\* C34 witness: the two sequences differ, each sets two properties on one
\* object and one on another, and both requests have been built.
C34_Witness ==
    /\ BothBuilt
    /\ Interleaving(il_s, il_t)
    /\ il_s # il_t
    /\ Len(il_s) = 3
    /\ for_ioctl_req(il_a).obj_prop_counts = <<2, 1>>
    /\ for_ioctl_req(il_a).prop_ids = <<1, 2, 1>>

\* C35: the calls made since new() or reset() for one raw object id,
\* whatever the kinds of the ObjectIds that carried it, make a single entry:
\* the raw id occurs once in obj_ids, and its property count is the number
\* of those calls.
C35_SameRawIdOneEntry ==
    ~panicked =>
        LET ser == for_ioctl_req(req)
        IN  \A o \in {t[1] : t \in SeqRange(log)} :
               /\ Occurrences(ser.obj_ids, o) = 1
               /\ \A i \in 1..Len(ser.obj_ids) :
                     ser.obj_ids[i] = o =>
                        ser.obj_prop_counts[i] = Len(CallsFor(log, o))

(***************************************************************************)
(* Properties of the lifetime of a dumb buffer.                            *)
(***************************************************************************)

\* The calls of a log that are exchange op with argument arg.
Issued(calls, op, arg) ==
    Cardinality({i \in 1..Len(calls) : calls[i].op = op /\ calls[i].arg = arg})

\* The calls of a log that free an object: RMFB or DESTROY_DUMB.
Frees(calls) ==
    {i \in 1..Len(calls) : calls[i].op \in {"RMFB", "DESTROY_DUMB"}}

\* C36: from the start of create_dumb_buffer to the end of the drop of the
\* DumbBuffer, RMFB is issued at most once for the framebuffer id and
\* DESTROY_DUMB at most once for the buffer handle; when create_dumb_buffer
\* has succeeded, and for as long as the DumbBuffer is alive, neither has
\* been issued.
C36_FreedAtMostOnce ==
    /\ Issued(db_life, "RMFB", db_fb) <= 1
    /\ Issued(db_life, "DESTROY_DUMB", db_handle) <= 1
    /\ Cardinality(Frees(db_life)) <= 2
    /\ db_pc = "held" => Frees(db_life) = {}
    /\ db_result = "Ok" => db_pc \in {"held", "drop_rmfb", "drop_destroy", "dropped"}
    /\ (db_result = "Ok" /\ db_pc # "dropped") =>
          Issued(db_life, "DESTROY_DUMB", db_handle) = 0

\* C36 witness: a DumbBuffer was returned and later dropped with the device
\* file open; over its lifetime RMFB and DESTROY_DUMB were issued once each.
C36_Witness ==
    /\ db_pc = "dropped"
    /\ db_result = "Ok"
    /\ Issued(db_life, "RMFB", db_fb) = 1
    /\ Issued(db_life, "DESTROY_DUMB", db_handle) = 1
    /\ Len(db_life) = 7

(***************************************************************************)
(* Properties of teardown against close.                                   *)
(***************************************************************************)

\* C37: a teardown never issues an exchange on a device file that has been
\* closed (or taken): a teardown that obtained a reference issues its
\* exchanges on the file the Arc still owns, and a close or take_file that
\* runs while it holds the reference reports busy; a teardown that found the
\* handle gone issues no exchange.
C37_NoExchangeAfterClose ==
    /\ \A i \in 1..Len(td_calls) : td_calls[i].file = "arc"
    /\ Holding # {} => td_file = "arc"
    /\ \A o \in Owners :
          (td_obj[o].pc = "done" /\ ~td_obj[o].found) =>
              \A i \in 1..Len(td_calls) : td_calls[i].by # o
    /\ td_ret.op # "none" => (td_ret.ret = "EBUSY" <=> td_ret.during # {})
    /\ td_ret.ret = "EBUSY" => td_file # "caller"

\* C37 witness: close ran while the DumbBuffer held its reference and
\* reported busy; the DumbBuffer then issued both exchanges on the open
\* file, and the BlobHandle, torn down afterwards, issued none.
C37_Witness ==
    /\ td_ret = [op |-> "close", ret |-> "EBUSY", during |-> {"DumbBuffer"}]
    /\ Len(td_calls) = 2
    /\ td_calls[2].op = "DESTROY_DUMB"
    /\ td_obj["DumbBuffer"] = [pc |-> "done", found |-> TRUE]
    /\ td_obj["BlobHandle"] = [pc |-> "done", found |-> FALSE]
    /\ td_file = "closed"

(***************************************************************************)
(* Properties of the termination of drm_ioctl.                             *)
(***************************************************************************)

\* The interrupted outcomes among those of the call.
InterruptedOutcomes == {i \in 1..Len(io_outcomes) : io_outcomes[i] = "EINTR"}

\* C38: drm_ioctl returns in the turn of the loop whose exchange gives an
\* outcome other than EINTR, having issued one exchange per interrupted
\* outcome and one more; for as long as every outcome is EINTR it has not
\* returned, however many exchanges it has issued.
C38_IssuesInterruptedPlusOne ==
    /\ io_pc = "returned" =>
          Len(io_issued) = Cardinality(InterruptedOutcomes) + 1
    /\ (io_outcomes # <<>> /\ Last(io_outcomes) # "EINTR") => io_pc = "returned"
    /\ Cardinality(InterruptedOutcomes) = Len(io_outcomes) =>
          /\ io_pc # "returned"
          /\ io_ret = "none"
          /\ Len(io_issued) = Len(io_outcomes)

\* C38 witness: drm_ioctl has returned Ok from its last exchange, every
\* exchange before it having been interrupted, as many as the model issues.
C38_Witness ==
    /\ io_pc = "returned"
    /\ io_ret = "Ok"
    /\ Len(io_issued) = MaxExchanges
    /\ Cardinality(InterruptedOutcomes) = MaxExchanges - 1

(***************************************************************************)
(* Properties of each_object_property_meta.                                *)
(***************************************************************************)

\* The positions of the validated list already fetched whose name was all
\* ASCII, in list order.
AsciiPositions ==
    SelectSeq([j \in 1..Len(pm_ascii) |-> j], LAMBDA j : pm_ascii[j])

\* C39: the callback has been invoked once for each property fetched so far
\* whose name is all ASCII, in list order, with the id and the value at the
\* same position of the validated lists; a failing GETPROPERTY exchange
\* returns its error with the invocations for the earlier properties made;
\* Ok is returned once every property has been fetched; with no property
\* the callback is never invoked.
C39_CallbackOncePerAsciiProperty ==
    /\ Len(pm_ascii) = pm_i - 1
    /\ Len(pm_cb) = Len(AsciiPositions)
    /\ \A k \in 1..Len(pm_cb) :
          pm_cb[k] = <<pm_ids[AsciiPositions[k]], pm_values[AsciiPositions[k]]>>
    /\ pm_ret = "Ok" => pm_i = Len(pm_ids) + 1
    /\ (pm_pc = "done" /\ pm_ret # "Ok") => pm_i <= Len(pm_ids)
    /\ pm_ids = <<>> => pm_cb = <<>>

\* C39 witness: of two properties the first has an ASCII name and the
\* exchange for the second failed: the error was returned after the one
\* invocation, with the first value.
C39_Witness ==
    /\ pm_pc = "done"
    /\ pm_ret = "NonExist"
    /\ pm_ids = <<2, 1>>
    /\ pm_values = <<7, 9>>
    /\ pm_cb = <<<<2, 7>>>>

(***************************************************************************)
(* Properties of the driver name readers.                                  *)
(***************************************************************************)

\* C40: whatever name length the content call reports, driver_name returns
\* a vector no longer than the capacity it reserved, and read_driver_name
\* returns a slice no longer than the caller's buffer, without panicking.
C40_NameWithinCapacity ==
    dn_pc = "done" =>
        /\ dn_ret.kind \notin {"panic", "abort"}
        /\ dn_ret.kind = "Ok" => dn_ret.len <= dn_cap

=============================================================================
